---- MODULE Spec2Model ----
(***************************************************************************)
(* Checkpoint selection and restore of the kilocode CLI.                   *)
(*                                                                         *)
(*   cli/src/state/atoms/checkpoint.ts   selection atoms, gesture timer    *)
(*   spec.md 4.3 - 4.5                   keyboard routing, restore         *)
(*                                       coordinator, engine, reconciler   *)
(*                                       (their code is not in src/)       *)
(***************************************************************************)
EXTENDS Integers, Sequences, FiniteSets, TLC

VARIABLES
    \* ---- gesture detector (checkpoint.ts:110, 371-387)
    lastEscPressTime,   \* lastEscPressTimeAtom
    escCall,            \* history: the last detector call and the one before it
    \* ---- local event log and its reconciler (spec.md 4.5)
    chatMessages,       \* chatMessagesAtom: the local log, in ts order
    messageVersionMap,  \* last recorded version (content length) per key
    pushIncoming,       \* history: the authoritative list of the last push
    pushTruncating,     \* history: whether the last push was a truncating merge
    mergeBefore,        \* history: the local log before the first push
    mergeStage,         \* number of pushes merged so far (reconciler runs)
    \* ---- selection session (checkpoint.ts:85-105)
    checkpointSelectionMode,    \* checkpointSelectionModeAtom
    restoreTypeSelectionMode,   \* restoreTypeSelectionModeAtom
    selectedCheckpointIndex,    \* selectedCheckpointIndexAtom
    selectedRestoreTypeIndex,   \* selectedRestoreTypeIndexAtom
    selectedCheckpoint,         \* selectedCheckpointAtom
    \* ---- restore coordinator (spec.md 4.4)
    executing,          \* id of the restore the session waits for, or NoRequest
    inFlight,           \* restores dispatched and not yet completed, failed or timed out
    requestCount,       \* restore requests dispatched so far
    confirmed,          \* history: the list element under the cursor at checkpoint confirm
    lastDispatch,       \* history, while a restore executes: the scope cursor it was
                        \* dispatched with, and whether the list had moved since confirm
    \* ---- external engine (spec.md 4.4, 6)
    clineMessages,      \* the authoritative log
    clock,              \* ts of the last event the engine wrote
    workspace,          \* snapshot reference the workspace equals
    enableCheckpoints,  \* cleared by a failed restore
    inbox,              \* restore requests received and not yet handled
    restoreOutcome,     \* what the engine did for the request it handled last
    \* ---- callers of the atoms (spec.md 4.3)
    atomCall,           \* history: the last call of a selection atom and what it returned
    modalOwner,         \* the modal interaction that owns the cancel key, or "none"
    isStreaming,        \* a generation is streaming
    keyHandledBy,       \* history: who handled the last cancel key
    reported,           \* the error surfaced to the user last, or Null
    \* ---- checkpoint ledger as a view of a log (checkpoint.ts:204-219)
    derivedList,        \* the value of checkpointListAtom read last, or NotDerived
    \* ---- checkpoint menu (CheckpointSelectionMenu.tsx:16-67)
    menuView,           \* what the menu rendered last
    \* ---- manage_tabs tool (core/tools/manageTabsTool.ts)
    consecutiveMistakeCount,    \* task.consecutiveMistakeCount
    openTabs,           \* paths of the text tabs that are open
    toolCall,           \* history: the last invocation of the tool and what it did
    parsed,             \* history: the last input of parseFileWithLine and its result
    \* ---- release notes (hooks/useReleaseNotes.ts, ManualReleaseNotesButton.tsx)
    releasesCache,      \* the module's releasesCache: <<>> for null, or <<data>>
    loadCalls,          \* the calls of loadReleases so far, and how far each has got
    importCount,        \* history: evaluations of import("releases.json")
    loading,            \* the loading state of the mounted modal's hook
    modal,              \* the modal: mounted or not, the currentVersion of its last
                        \* render, and whether an effect or a render is due
    viewed              \* history: the calls of markAsViewed, with the cache at the call

gestureVars == <<lastEscPressTime, escCall>>

logVars == <<chatMessages, messageVersionMap>>

mergeVars == <<pushIncoming, pushTruncating, mergeBefore, mergeStage>>

selectionVars == <<checkpointSelectionMode, restoreTypeSelectionMode, selectedCheckpointIndex,
                   selectedRestoreTypeIndex, selectedCheckpoint>>

coordinatorVars == <<executing, inFlight, requestCount, confirmed, lastDispatch>>

engineVars == <<clineMessages, clock, workspace, enableCheckpoints, inbox, restoreOutcome>>

sessionVars == <<selectionVars, coordinatorVars, engineVars>>

keyboardVars == <<modalOwner, isStreaming, keyHandledBy>>

toolVars == <<consecutiveMistakeCount, openTabs, toolCall, parsed>>

releaseVars == <<releasesCache, loadCalls, importCount, loading, modal, viewed>>

\* What the gesture, merge and restore steps leave alone.
callerVars == <<atomCall, keyboardVars, derivedList, reported, menuView, toolVars, releaseVars>>

vars == <<gestureVars, logVars, mergeVars, selectionVars, coordinatorVars, engineVars, callerVars>>

\* null for the atoms that hold a record
Null == [null |-> TRUE]

\* null where the code has string | null
NullText == <<"null">>

\* No restore is awaited (request ids start at 1).
NoRequest == 0

(***************************************************************************)
(* Gesture detector                                                        *)
(***************************************************************************)

\* checkpoint.ts:55
DOUBLE_ESC_WINDOW_MS == 500

\* checkpoint.ts:110, 386: the value of lastEscPressTimeAtom that means "never"
ESC_SENTINEL == 0

\* Clock readings offered to the detector: around every half window, up to
\* MaxTick half windows, so that gaps of 0, 1, 499, 500, 501 and more occur,
\* and so do readings within one window of the sentinel.
MaxTick == 4

HalfWindow == DOUBLE_ESC_WINDOW_MS \div 2

Times == { t \in UNION { {k * HalfWindow - 1, k * HalfWindow, k * HalfWindow + 1} : k \in 0..MaxTick } : t >= 0 }

\* Mutant: the comparison is strict at the window's end.
recordEscPressAtom_strictWindow(lastPress, now) ==
    LET timeSinceLastPress == now - lastPress
    IN  [last |-> now,
         isDouble |-> timeSinceLastPress > 0 /\ timeSinceLastPress < DOUBLE_ESC_WINDOW_MS]

\* Mutant: a detected double press clears the timer (the feature plan's
\* triggerCheckpointSelectionAtom).
recordEscPressAtom_clearOnDouble(lastPress, now) ==
    LET timeSinceLastPress == now - lastPress
        isDouble == timeSinceLastPress > 0 /\ timeSinceLastPress <= DOUBLE_ESC_WINDOW_MS
    IN  [last |-> IF isDouble THEN 0 ELSE now, isDouble |-> isDouble]

\* recordEscPressAtom: the new value of lastEscPressTimeAtom and the result.
recordEscPressAtom(lastPress, now) ==
    LET timeSinceLastPress == now - lastPress
    IN  [last |-> now,
         isDouble |-> timeSinceLastPress > 0 /\ timeSinceLastPress <= DOUBLE_ESC_WINDOW_MS]

\* resetEscPressTimerAtom: the new value of lastEscPressTimeAtom.
resetEscPressTimerAtom == 0

NoEscCall == [op |-> "none", now |-> 0, isDouble |-> FALSE, prevOp |-> "none", prevNow |-> 0]

GestureInit ==
    /\ lastEscPressTime = 0
    /\ escCall = NoEscCall

\* One cancel-key press at clock reading now.
EscPress(now) ==
    LET r == recordEscPressAtom(lastEscPressTime, now)
    IN  /\ lastEscPressTime' = r.last
        /\ escCall' = [op |-> "press", now |-> now, isDouble |-> r.isDouble,
                       prevOp |-> escCall.op, prevNow |-> escCall.now]
        /\ UNCHANGED <<logVars, mergeVars, callerVars, sessionVars>>

ResetEscTimer ==
    /\ lastEscPressTime' = resetEscPressTimerAtom
    /\ escCall' = [op |-> "reset", now |-> 0, isDouble |-> FALSE,
                   prevOp |-> escCall.op, prevNow |-> escCall.now]
    /\ UNCHANGED <<logVars, mergeVars, callerVars, sessionVars>>

(***************************************************************************)
(* Event log                                                               *)
(***************************************************************************)

\* Keys (ts) of the events of the model's logs.
MaxKey == 2

\* Longest content of an event (its version while it streams).
MaxLen == 2

\* The content of an event that is len characters long: a streaming event
\* grows along one stream, so its length determines its content.
Content(len) == [i \in 1..len |-> "x"]

TextMsg(ts, partial, len) ==
    [ts |-> ts, say |-> "text", text |-> Content(len), partial |-> partial]

Keys(log) == { log[i].ts : i \in DOMAIN log }

MsgAt(log, ts) == log[CHOOSE i \in DOMAIN log : log[i].ts = ts]

getMessageContentLength(msg) == Len(msg.text)

\* Stable insertion of m into a list sorted ascending by ts.
RECURSIVE InsertByTs(_, _)
InsertByTs(sorted, m) ==
    IF sorted = <<>> THEN <<m>>
    ELSE IF sorted[Len(sorted)].ts <= m.ts THEN Append(sorted, m)
    ELSE Append(InsertByTs(SubSeq(sorted, 1, Len(sorted) - 1), m), sorted[Len(sorted)])

RECURSIVE SortByTs(_)
SortByTs(log) ==
    IF log = <<>> THEN <<>>
    ELSE InsertByTs(SortByTs(SubSeq(log, 1, Len(log) - 1)), log[Len(log)])

\* versionMap.get(ts) || 0
VersionOf(versionMap, ts) == IF ts \in DOMAIN versionMap THEN versionMap[ts] ELSE 0

\* The version map recorded for a log: the content length of each entry.
VersionsOf(log) == [ts \in Keys(log) |-> getMessageContentLength(MsgAt(log, ts))]

LogInit ==
    /\ chatMessages = <<>>
    /\ messageVersionMap = VersionsOf(<<>>)

(***************************************************************************)
(* Log reconciler (spec.md 4.5)                                            *)
(***************************************************************************)

\* Mutant: a stale partial of the recorded version replaces the finalized entry.
reconcileEntry_acceptsEqualVersion(current, incomingMsg, versionMap) ==
    IF incomingMsg.ts \notin Keys(current) THEN incomingMsg
    ELSE LET existingMsg == MsgAt(current, incomingMsg.ts)
             incomingVersion == getMessageContentLength(incomingMsg)
         IN  IF ~existingMsg.partial /\ incomingMsg.partial
             THEN IF incomingVersion < VersionOf(versionMap, incomingMsg.ts)
                  THEN existingMsg
                  ELSE incomingMsg
             ELSE IF existingMsg.partial
             THEN IF incomingVersion >= getMessageContentLength(existingMsg)
                  THEN incomingMsg
                  ELSE existingMsg
             ELSE incomingMsg

\* Mutant: a streaming entry yields only to a strictly greater version.
reconcileEntry_strictlyGreater(current, incomingMsg, versionMap) ==
    IF incomingMsg.ts \notin Keys(current) THEN incomingMsg
    ELSE LET existingMsg == MsgAt(current, incomingMsg.ts)
             incomingVersion == getMessageContentLength(incomingMsg)
         IN  IF ~existingMsg.partial /\ incomingMsg.partial
             THEN IF incomingVersion <= VersionOf(versionMap, incomingMsg.ts)
                  THEN existingMsg
                  ELSE incomingMsg
             ELSE IF existingMsg.partial
             THEN IF incomingVersion > getMessageContentLength(existingMsg)
                  THEN incomingMsg
                  ELSE existingMsg
             ELSE incomingMsg

\* Mutant: a streaming entry yields to every incoming entry.
reconcileEntry_rollsBackStreaming(current, incomingMsg, versionMap) ==
    IF incomingMsg.ts \notin Keys(current) THEN incomingMsg
    ELSE LET existingMsg == MsgAt(current, incomingMsg.ts)
             incomingVersion == getMessageContentLength(incomingMsg)
         IN  IF ~existingMsg.partial /\ incomingMsg.partial
             THEN IF incomingVersion <= VersionOf(versionMap, incomingMsg.ts)
                  THEN existingMsg
                  ELSE incomingMsg
             ELSE IF existingMsg.partial
             THEN IF incomingVersion >= 0
                  THEN incomingMsg
                  ELSE existingMsg
             ELSE incomingMsg

\* Resolution of one incoming entry against the local entry of the same key.
reconcileEntry(current, incomingMsg, versionMap) ==
    IF incomingMsg.ts \notin Keys(current) THEN incomingMsg
    ELSE LET existingMsg == MsgAt(current, incomingMsg.ts)
             incomingVersion == getMessageContentLength(incomingMsg)
         IN  IF ~existingMsg.partial /\ incomingMsg.partial
             THEN IF incomingVersion <= VersionOf(versionMap, incomingMsg.ts)
                  THEN existingMsg
                  ELSE incomingMsg
             ELSE IF existingMsg.partial
             THEN IF incomingVersion >= getMessageContentLength(existingMsg)
                  THEN incomingMsg
                  ELSE existingMsg
             ELSE incomingMsg

\* Local entries the incoming list does not mention.
Unmentioned(current, incoming) ==
    LET Absent(m) == m.ts \notin Keys(incoming)
    IN  SelectSeq(current, Absent)

\* Mutant: every merge drops the local entries the incoming list omits.
reconcileMessages_alwaysTruncates(current, incoming, versionMap, truncating) ==
    SortByTs([i \in DOMAIN incoming |-> reconcileEntry(current, incoming[i], versionMap)])

\* Mutant: no merge drops a local entry, truncating or not.
reconcileMessages_neverTruncates(current, incoming, versionMap, truncating) ==
    SortByTs([i \in DOMAIN incoming |-> reconcileEntry(current, incoming[i], versionMap)]
             \o Unmentioned(current, incoming))

\* Mutant: an incremental merge retains every local entry, mentioned or not.
reconcileMessages_retainsMentioned(current, incoming, versionMap, truncating) ==
    LET resolved == [i \in DOMAIN incoming |-> reconcileEntry(current, incoming[i], versionMap)]
        retained == IF truncating THEN <<>> ELSE current
    IN  SortByTs(resolved \o retained)

reconcileMessages(current, incoming, versionMap, truncating) ==
    LET resolved == [i \in DOMAIN incoming |-> reconcileEntry(current, incoming[i], versionMap)]
        retained == IF truncating THEN <<>> ELSE Unmentioned(current, incoming)
    IN  SortByTs(resolved \o retained)

\* Every log over the keys 1..MaxKey in ts order, each key absent, streaming
\* or finalized, with a content of 1..MaxLen characters.
EntryChoices == {"absent"} \cup ({"partial", "final"} \X (1..MaxLen))

RECURSIVE LogOf(_, _)
LogOf(choice, k) ==
    IF k = 0 THEN <<>>
    ELSE IF choice[k] = "absent" THEN LogOf(choice, k - 1)
    ELSE Append(LogOf(choice, k - 1), TextMsg(k, choice[k][1] = "partial", choice[k][2]))

BoundedLogs == { LogOf(c, MaxKey) : c \in [1..MaxKey -> EntryChoices] }

MergeIdle ==
    /\ pushIncoming = <<>>
    /\ pushTruncating = FALSE
    /\ mergeBefore = <<>>
    /\ mergeStage = 0

(***************************************************************************)
(* Checkpoint ledger (checkpoint.ts:147-247)                               *)
(***************************************************************************)

\* Snapshot reference (commit hash) written by the checkpoint saved at ts.
Hash(ts) == <<"sha", ts>>

CheckpointMsg(ts) ==
    [ts |-> ts, say |-> "checkpoint_saved", text |-> Hash(ts), partial |-> FALSE]

\* The user message written at ts; its text is as long as ts, so that the
\* previews of different user messages differ.
UserMsg(ts) ==
    [ts |-> ts, say |-> "user_feedback", text |-> Content(ts), partial |-> FALSE]

\* A user message without text (an image alone).
TextlessUserMsg(ts) ==
    [ts |-> ts, say |-> "user_feedback", text |-> <<>>, partial |-> FALSE]

\* A user message whose text is one blank.
BlankUserMsg(ts) ==
    [ts |-> ts, say |-> "user_feedback", text |-> <<" ">>, partial |-> FALSE]

\* The cost summary a conversation restore writes (api_req_deleted).
SummaryMsg(ts) ==
    [ts |-> ts, say |-> "api_req_deleted", text |-> <<"cost">>, partial |-> FALSE]

\* checkpoint.ts:169: length of the message preview
PREVIEW_MAX_LENGTH == 50

truncateText(text, maxLength) ==
    IF Len(text) <= maxLength THEN text
    ELSE SubSeq(text, 1, maxLength - 3) \o <<".", ".", ".">>

\* String.prototype.trim: blanks at both ends are removed.
RECURSIVE trim(_)
trim(text) ==
    IF text = <<>> THEN text
    ELSE IF Head(text) = " " THEN trim(Tail(text))
    ELSE IF text[Len(text)] = " " THEN trim(SubSeq(text, 1, Len(text) - 1))
    ELSE text

RECURSIVE findPrecedingUserMessageFrom(_, _, _)
findPrecedingUserMessageFrom(messages, beforeTs, i) ==
    IF i < 1 THEN NullText
    ELSE LET msg == messages[i]
         IN  IF msg.ts >= beforeTs
             THEN findPrecedingUserMessageFrom(messages, beforeTs, i - 1)
             ELSE IF msg.say = "user_feedback" /\ msg.text # <<>>
             THEN truncateText(trim(msg.text), PREVIEW_MAX_LENGTH)
             ELSE findPrecedingUserMessageFrom(messages, beforeTs, i - 1)

\* Mutant: a user message at the checkpoint's own timestamp counts as earlier.
findPrecedingUserMessage_atOrBelow(messages, beforeTs) ==
    findPrecedingUserMessageFrom(messages, beforeTs + 1, Len(messages))

findPrecedingUserMessage(messages, beforeTs) ==
    findPrecedingUserMessageFrom(messages, beforeTs, Len(messages))

\* Mutant: every message with a text counts as a checkpoint marker.
IsCheckpointMsg_anySay(msg) == msg.text # <<>>

IsCheckpointMsg(msg) == msg.say = "checkpoint_saved" /\ msg.text # <<>>

extractCheckpointInfo(msg, allMessages) ==
    [ts |-> msg.ts,
     commitHash |-> msg.text,
     userMessagePreview |-> findPrecedingUserMessage(allMessages, msg.ts)]

\* Stable insertion into a list sorted descending by ts (b.ts - a.ts).
RECURSIVE InsertByTsDesc(_, _)
InsertByTsDesc(sorted, c) ==
    IF sorted = <<>> THEN <<c>>
    ELSE IF sorted[Len(sorted)].ts >= c.ts THEN Append(sorted, c)
    ELSE Append(InsertByTsDesc(SubSeq(sorted, 1, Len(sorted) - 1), c), sorted[Len(sorted)])

RECURSIVE SortByTsDesc(_)
SortByTsDesc(list) ==
    IF list = <<>> THEN <<>>
    ELSE InsertByTsDesc(SortByTsDesc(SubSeq(list, 1, Len(list) - 1)), list[Len(list)])

\* Mutant: the records are left in the order of the log.
checkpointListAtom_logOrder(messages) ==
    LET markers == SelectSeq(messages, IsCheckpointMsg)
    IN  [i \in DOMAIN markers |-> extractCheckpointInfo(markers[i], messages)]

checkpointListAtom(messages) ==
    LET markers == SelectSeq(messages, IsCheckpointMsg)
    IN  SortByTsDesc([i \in DOMAIN markers |-> extractCheckpointInfo(markers[i], messages)])

hasCheckpointsAtom(messages) == Len(checkpointListAtom(messages)) > 0

checkpointCountAtom(messages) == Len(checkpointListAtom(messages))

\* Indices are 0-based as in the code; TLA+ sequences are 1-based.
currentSelectedCheckpointAtom(messages, index) ==
    LET checkpoints == checkpointListAtom(messages)
    IN  IF index < 0 \/ index >= Len(checkpoints) THEN Null ELSE checkpoints[index + 1]

\* checkpoint.ts:60-76
RESTORE_TYPE_OPTIONS == <<"both", "conversation", "code">>

currentSelectedRestoreTypeAtom(index) ==
    IF index < 0 \/ index >= Len(RESTORE_TYPE_OPTIONS) THEN "null"
    ELSE RESTORE_TYPE_OPTIONS[index + 1]

(***************************************************************************)
(* Selection atoms (checkpoint.ts:269-365): each is the effect of one      *)
(* write atom on the five selection atoms.                                 *)
(***************************************************************************)

\* Mutant: the session is entered whether the log has checkpoints or not.
enterCheckpointSelectionModeAtom_noGuard ==
    /\ checkpointSelectionMode' = TRUE
    /\ restoreTypeSelectionMode' = FALSE
    /\ selectedCheckpointIndex' = 0
    /\ selectedCheckpoint' = Null
    /\ UNCHANGED selectedRestoreTypeIndex

enterCheckpointSelectionModeAtom ==
    IF ~hasCheckpointsAtom(chatMessages)
    THEN UNCHANGED selectionVars
    ELSE /\ checkpointSelectionMode' = TRUE
         /\ restoreTypeSelectionMode' = FALSE
         /\ selectedCheckpointIndex' = 0
         /\ selectedCheckpoint' = Null
         /\ UNCHANGED selectedRestoreTypeIndex

\* Mutant: the exit keeps the frozen checkpoint.
exitCheckpointSelectionModeAtom_keepsSelectedCheckpoint ==
    /\ checkpointSelectionMode' = FALSE
    /\ restoreTypeSelectionMode' = FALSE
    /\ selectedCheckpointIndex' = 0
    /\ selectedRestoreTypeIndex' = 0
    /\ UNCHANGED selectedCheckpoint

\* Mutant: the exit leaves the restore type index where it was.
exitCheckpointSelectionModeAtom_keepsRestoreTypeIndex ==
    /\ checkpointSelectionMode' = FALSE
    /\ restoreTypeSelectionMode' = FALSE
    /\ selectedCheckpointIndex' = 0
    /\ selectedCheckpoint' = Null
    /\ UNCHANGED selectedRestoreTypeIndex

exitCheckpointSelectionModeAtom ==
    /\ checkpointSelectionMode' = FALSE
    /\ restoreTypeSelectionMode' = FALSE
    /\ selectedCheckpointIndex' = 0
    /\ selectedRestoreTypeIndex' = 0
    /\ selectedCheckpoint' = Null

\* Mutant: the confirm stores the last element of the list.
confirmCheckpointSelectionAtom_storesLast ==
    LET checkpoint == currentSelectedCheckpointAtom(chatMessages,
                                                    checkpointCountAtom(chatMessages) - 1)
    IN  IF checkpoint = Null
        THEN UNCHANGED selectionVars
        ELSE /\ selectedCheckpoint' = checkpoint
             /\ checkpointSelectionMode' = FALSE
             /\ restoreTypeSelectionMode' = TRUE
             /\ selectedRestoreTypeIndex' = 0
             /\ UNCHANGED selectedCheckpointIndex

\* Mutant: the confirm puts the scope cursor on the second option.
confirmCheckpointSelectionAtom_scopeCursorOne ==
    LET checkpoint == currentSelectedCheckpointAtom(chatMessages, selectedCheckpointIndex)
    IN  IF checkpoint = Null
        THEN UNCHANGED selectionVars
        ELSE /\ selectedCheckpoint' = checkpoint
             /\ checkpointSelectionMode' = FALSE
             /\ restoreTypeSelectionMode' = TRUE
             /\ selectedRestoreTypeIndex' = 1
             /\ UNCHANGED selectedCheckpointIndex

\* Mutant: the confirm stores the first element of the list, not the one
\* under the cursor.
confirmCheckpointSelectionAtom_storesFirst ==
    LET checkpoint == currentSelectedCheckpointAtom(chatMessages, 0)
    IN  IF checkpoint = Null
        THEN UNCHANGED selectionVars
        ELSE /\ selectedCheckpoint' = checkpoint
             /\ checkpointSelectionMode' = FALSE
             /\ restoreTypeSelectionMode' = TRUE
             /\ selectedRestoreTypeIndex' = 0
             /\ UNCHANGED selectedCheckpointIndex

\* Mutant: confirm opens the scope menu and leaves the checkpoint menu open.
confirmCheckpointSelectionAtom_keepsCheckpointMode ==
    LET checkpoint == currentSelectedCheckpointAtom(chatMessages, selectedCheckpointIndex)
    IN  IF checkpoint = Null
        THEN UNCHANGED selectionVars
        ELSE /\ selectedCheckpoint' = checkpoint
             /\ restoreTypeSelectionMode' = TRUE
             /\ selectedRestoreTypeIndex' = 0
             /\ UNCHANGED <<selectedCheckpointIndex, checkpointSelectionMode>>

\* Mutant: confirm opens the scope menu whether or not the cursor is on a
\* checkpoint.
confirmCheckpointSelectionAtom_noGuard ==
    /\ selectedCheckpoint' = currentSelectedCheckpointAtom(chatMessages, selectedCheckpointIndex)
    /\ checkpointSelectionMode' = FALSE
    /\ restoreTypeSelectionMode' = TRUE
    /\ selectedRestoreTypeIndex' = 0
    /\ UNCHANGED selectedCheckpointIndex

confirmCheckpointSelectionAtom ==
    LET checkpoint == currentSelectedCheckpointAtom(chatMessages, selectedCheckpointIndex)
    IN  IF checkpoint = Null
        THEN UNCHANGED selectionVars
        ELSE /\ selectedCheckpoint' = checkpoint
             /\ checkpointSelectionMode' = FALSE
             /\ restoreTypeSelectionMode' = TRUE
             /\ selectedRestoreTypeIndex' = 0
             /\ UNCHANGED selectedCheckpointIndex

\* Mutant: going back also puts the checkpoint cursor on the first row.
backToCheckpointSelectionAtom_resetsCursor ==
    /\ restoreTypeSelectionMode' = FALSE
    /\ checkpointSelectionMode' = TRUE
    /\ selectedRestoreTypeIndex' = 0
    /\ selectedCheckpointIndex' = 0
    /\ UNCHANGED selectedCheckpoint

backToCheckpointSelectionAtom ==
    /\ restoreTypeSelectionMode' = FALSE
    /\ checkpointSelectionMode' = TRUE
    /\ selectedRestoreTypeIndex' = 0
    /\ UNCHANGED <<selectedCheckpointIndex, selectedCheckpoint>>

\* Mutant: navigating up stops at the first row.
navigateCheckpointUpAtom_stopsAtFirst ==
    LET count == checkpointCountAtom(chatMessages)
    IN  IF count = 0
        THEN UNCHANGED selectionVars
        ELSE /\ selectedCheckpointIndex' =
                    IF selectedCheckpointIndex = 0 THEN 0 ELSE selectedCheckpointIndex - 1
             /\ UNCHANGED <<checkpointSelectionMode, restoreTypeSelectionMode,
                            selectedRestoreTypeIndex, selectedCheckpoint>>

navigateCheckpointUpAtom ==
    LET count == checkpointCountAtom(chatMessages)
    IN  IF count = 0
        THEN UNCHANGED selectionVars
        ELSE /\ selectedCheckpointIndex' =
                    IF selectedCheckpointIndex = 0 THEN count - 1 ELSE selectedCheckpointIndex - 1
             /\ UNCHANGED <<checkpointSelectionMode, restoreTypeSelectionMode,
                            selectedRestoreTypeIndex, selectedCheckpoint>>

navigateCheckpointDownAtom ==
    LET count == checkpointCountAtom(chatMessages)
    IN  IF count = 0
        THEN UNCHANGED selectionVars
        ELSE /\ selectedCheckpointIndex' = (selectedCheckpointIndex + 1) % count
             /\ UNCHANGED <<checkpointSelectionMode, restoreTypeSelectionMode,
                            selectedRestoreTypeIndex, selectedCheckpoint>>

navigateRestoreTypeUpAtom ==
    LET count == Len(RESTORE_TYPE_OPTIONS)
    IN  /\ selectedRestoreTypeIndex' =
               IF selectedRestoreTypeIndex = 0 THEN count - 1 ELSE selectedRestoreTypeIndex - 1
        /\ UNCHANGED <<checkpointSelectionMode, restoreTypeSelectionMode,
                       selectedCheckpointIndex, selectedCheckpoint>>

navigateRestoreTypeDownAtom ==
    LET count == Len(RESTORE_TYPE_OPTIONS)
    IN  /\ selectedRestoreTypeIndex' = (selectedRestoreTypeIndex + 1) % count
        /\ UNCHANGED <<checkpointSelectionMode, restoreTypeSelectionMode,
                       selectedCheckpointIndex, selectedCheckpoint>>

(***************************************************************************)
(* Restore coordinator, keyboard routing and external engine               *)
(* (spec.md 4.3, 4.4, 5, 6)                                                *)
(***************************************************************************)

\* Last ts the engine may write.
MaxTs == 3

\* Restore requests dispatched in one session.
MaxRestores == 2

SessionInit ==
    /\ checkpointSelectionMode = FALSE
    /\ restoreTypeSelectionMode = FALSE
    /\ selectedCheckpointIndex = 0
    /\ selectedRestoreTypeIndex = 0
    /\ selectedCheckpoint = Null
    /\ executing = NoRequest
    /\ inFlight = 0
    /\ requestCount = 0
    /\ confirmed = Null
    /\ lastDispatch = Null
    /\ clineMessages = <<>>
    /\ clock = 0
    /\ workspace = Hash(0)
    /\ enableCheckpoints = TRUE
    /\ inbox = <<>>
    /\ restoreOutcome = Null

\* The session mode of spec.md 3, from the two mode atoms and the coordinator.
Mode ==
    IF restoreTypeSelectionMode THEN "choosingScope"
    ELSE IF checkpointSelectionMode THEN "choosingCheckpoint"
    ELSE IF executing # NoRequest THEN "executing"
    ELSE "idle"

\* Mutant: the gesture is accepted while a restore is executing.
IsIdle_ignoresExecuting == ~checkpointSelectionMode /\ ~restoreTypeSelectionMode

IsIdle == ~checkpointSelectionMode /\ ~restoreTypeSelectionMode /\ executing = NoRequest

\* ---- keyboard routing: one action per signal of spec.md 4.3

\* Idle --doubleGesture--> ChoosingCheckpoint (a no-op without checkpoints).
DoubleGesture ==
    /\ IsIdle
    /\ enterCheckpointSelectionModeAtom
    /\ UNCHANGED <<gestureVars, logVars, mergeVars, callerVars, coordinatorVars, engineVars>>

NavigateCheckpointUp ==
    /\ Mode = "choosingCheckpoint"
    /\ navigateCheckpointUpAtom
    /\ UNCHANGED <<gestureVars, logVars, mergeVars, callerVars, coordinatorVars, engineVars>>

NavigateCheckpointDown ==
    /\ Mode = "choosingCheckpoint"
    /\ navigateCheckpointDownAtom
    /\ UNCHANGED <<gestureVars, logVars, mergeVars, callerVars, coordinatorVars, engineVars>>

\* ChoosingCheckpoint --confirm--> ChoosingScope
ConfirmCheckpoint ==
    /\ Mode = "choosingCheckpoint"
    /\ confirmCheckpointSelectionAtom
    /\ confirmed' = currentSelectedCheckpointAtom(chatMessages, selectedCheckpointIndex)
    /\ UNCHANGED <<gestureVars, logVars, mergeVars, callerVars, engineVars,
                   executing, inFlight, requestCount, lastDispatch>>

\* ChoosingCheckpoint --cancel--> Idle
CancelCheckpoint ==
    /\ Mode = "choosingCheckpoint"
    /\ exitCheckpointSelectionModeAtom
    /\ UNCHANGED <<gestureVars, logVars, mergeVars, callerVars, coordinatorVars, engineVars>>

NavigateRestoreTypeUp ==
    /\ Mode = "choosingScope"
    /\ navigateRestoreTypeUpAtom
    /\ UNCHANGED <<gestureVars, logVars, mergeVars, callerVars, coordinatorVars, engineVars>>

NavigateRestoreTypeDown ==
    /\ Mode = "choosingScope"
    /\ navigateRestoreTypeDownAtom
    /\ UNCHANGED <<gestureVars, logVars, mergeVars, callerVars, coordinatorVars, engineVars>>

\* ChoosingScope --cancel--> ChoosingCheckpoint
CancelScope ==
    /\ Mode = "choosingScope"
    /\ backToCheckpointSelectionAtom
    /\ confirmed' = Null
    /\ UNCHANGED <<gestureVars, logVars, mergeVars, callerVars, engineVars,
                   executing, inFlight, requestCount, lastDispatch>>

\* The restore request of spec.md 6 built from the frozen checkpoint and the
\* option under the scope cursor.
RestoreRequest(id, checkpoint, scopeIndex) ==
    [id |-> id,
     ts |-> checkpoint.ts,
     commitHash |-> checkpoint.commitHash,
     restoreType |-> currentSelectedRestoreTypeAtom(scopeIndex),
     mode |-> "restore"]

\* Mutant: the request is sent and the session is left as it is.
ConfirmScope_keepsSession ==
    /\ Mode = "choosingScope"
    /\ selectedCheckpoint # Null
    /\ requestCount < MaxRestores
    /\ LET req == RestoreRequest(requestCount + 1, selectedCheckpoint, selectedRestoreTypeIndex)
       IN  /\ inbox' = Append(inbox, req)
           /\ executing' = req.id
           /\ lastDispatch' =
                  [scopeCursor |-> selectedRestoreTypeIndex,
                   moved |-> currentSelectedCheckpointAtom(chatMessages, selectedCheckpointIndex)
                                 # selectedCheckpoint]
    /\ inFlight' = inFlight + 1
    /\ requestCount' = requestCount + 1
    /\ confirmed' = Null
    /\ UNCHANGED selectionVars
    /\ UNCHANGED <<gestureVars, logVars, mergeVars, callerVars, clineMessages, clock, workspace,
                   enableCheckpoints, restoreOutcome>>

\* ChoosingScope --confirm--> Executing: the session is cleared and the
\* request is sent to the engine (spec.md 4.4, steps 1 and 2).
ConfirmScope ==
    /\ Mode = "choosingScope"
    /\ selectedCheckpoint # Null
    /\ requestCount < MaxRestores
    /\ LET req == RestoreRequest(requestCount + 1, selectedCheckpoint, selectedRestoreTypeIndex)
       IN  /\ inbox' = Append(inbox, req)
           /\ executing' = req.id
           /\ lastDispatch' =
                  [scopeCursor |-> selectedRestoreTypeIndex,
                   moved |-> currentSelectedCheckpointAtom(chatMessages, selectedCheckpointIndex)
                                 # selectedCheckpoint]
    /\ inFlight' = inFlight + 1
    /\ requestCount' = requestCount + 1
    /\ confirmed' = Null
    /\ exitCheckpointSelectionModeAtom
    /\ UNCHANGED <<gestureVars, logVars, mergeVars, callerVars, clineMessages, clock, workspace,
                   enableCheckpoints, restoreOutcome>>

\* The refreshed log did not arrive in time: the timeout error is surfaced
\* and the session returns to Idle.
RestoreTimeout ==
    /\ executing # NoRequest
    /\ executing' = NoRequest
    /\ inFlight' = inFlight - 1
    /\ lastDispatch' = Null
    /\ reported' = [id |-> executing, error |-> "RestoreTimeout"]
    /\ UNCHANGED <<gestureVars, logVars, mergeVars, atomCall, keyboardVars, derivedList, menuView, toolVars, releaseVars,
                   selectionVars, engineVars, requestCount, confirmed>>

\* ---- external engine

\* Mutant: the workspace is rolled back whatever the scope (the restore
\* function before scopes were added).
checkpointRestore_coupled(messages, currentWorkspace, now, req) ==
    LET conversation == req.mode = "restore" /\ req.restoreType \in {"both", "conversation"}
        Kept(m) == m.ts <= req.ts
    IN  [messages |-> IF conversation
                      THEN Append(SelectSeq(messages, Kept), SummaryMsg(now + 1))
                      ELSE messages,
         clock |-> IF conversation THEN now + 1 ELSE now,
         workspace |-> req.commitHash,
         rollback |-> TRUE,
         notice |-> TRUE,
         cancels |-> 1]

\* Mutant: the workspace is rolled back for code/both whatever the mode, as
\* in the checkpointRestore of the feature plan.
checkpointRestore_previewRollsBack(messages, currentWorkspace, now, req) ==
    LET code == req.restoreType \in {"both", "code"}
        conversation == req.mode = "restore" /\ req.restoreType \in {"both", "conversation"}
        Kept(m) == m.ts <= req.ts
    IN  [messages |-> IF conversation
                      THEN Append(SelectSeq(messages, Kept), SummaryMsg(now + 1))
                      ELSE messages,
         clock |-> IF conversation THEN now + 1 ELSE now,
         workspace |-> IF code THEN req.commitHash ELSE currentWorkspace,
         rollback |-> code,
         notice |-> code,
         cancels |-> 1]

\* Mutant: the task is cancelled and reinitialized before the restore and
\* once more at its end, as in the flow of the feature plan.
checkpointRestore_cancelsTwice(messages, currentWorkspace, now, req) ==
    LET code == req.mode = "restore" /\ req.restoreType \in {"both", "code"}
        conversation == req.mode = "restore" /\ req.restoreType \in {"both", "conversation"}
        Kept(m) == m.ts <= req.ts
    IN  [messages |-> IF conversation
                      THEN Append(SelectSeq(messages, Kept), SummaryMsg(now + 1))
                      ELSE messages,
         clock |-> IF conversation THEN now + 1 ELSE now,
         workspace |-> IF code THEN req.commitHash ELSE currentWorkspace,
         rollback |-> code,
         notice |-> code,
         cancels |-> 2]

\* The effect of one restore request on the engine, in restore mode:
\* workspace rollback and notice for code/both; log truncation to ts and
\* cost summary for conversation/both; one cancel/reinitialize step. A
\* preview request changes nothing that is persisted (spec.md 6).
checkpointRestore(messages, currentWorkspace, now, req) ==
    LET code == req.mode = "restore" /\ req.restoreType \in {"both", "code"}
        conversation == req.mode = "restore" /\ req.restoreType \in {"both", "conversation"}
        Kept(m) == m.ts <= req.ts
    IN  [messages |-> IF conversation
                      THEN Append(SelectSeq(messages, Kept), SummaryMsg(now + 1))
                      ELSE messages,
         clock |-> IF conversation THEN now + 1 ELSE now,
         workspace |-> IF code THEN req.commitHash ELSE currentWorkspace,
         rollback |-> code,
         notice |-> code,
         cancels |-> 1]

\* The engine writes one event, a checkpoint of the workspace as it is or a
\* user message, and pushes its log: an incremental push, merged by the
\* reconciler.
EngineSayCheckpoint ==
    /\ clock < MaxTs
    /\ enableCheckpoints
    /\ clock' = clock + 1
    /\ clineMessages' = Append(clineMessages, CheckpointMsg(clock + 1))
    /\ workspace' = Hash(clock + 1)
    /\ chatMessages' = reconcileMessages(chatMessages, clineMessages', messageVersionMap, FALSE)
    /\ messageVersionMap' = VersionsOf(chatMessages')
    /\ UNCHANGED <<gestureVars, mergeVars, callerVars, selectionVars, coordinatorVars,
                   enableCheckpoints, inbox, restoreOutcome>>

EngineSayUser ==
    /\ clock < MaxTs
    /\ clock' = clock + 1
    /\ clineMessages' = Append(clineMessages, UserMsg(clock + 1))
    /\ chatMessages' = reconcileMessages(chatMessages, clineMessages', messageVersionMap, FALSE)
    /\ messageVersionMap' = VersionsOf(chatMessages')
    /\ UNCHANGED <<gestureVars, mergeVars, callerVars, selectionVars, coordinatorVars, workspace,
                   enableCheckpoints, inbox, restoreOutcome>>

\* The engine handles the oldest request and succeeds; its refreshed log is
\* pushed and merged, as a truncating merge when the mode is restore, and
\* the session that waits for this restore returns to Idle.
EngineRestore ==
    /\ inbox # <<>>
    /\ LET req == Head(inbox)
           done == checkpointRestore(clineMessages, workspace, clock, req)
       IN  /\ done.clock <= MaxTs
           /\ clineMessages' = done.messages
           /\ clock' = done.clock
           /\ workspace' = done.workspace
           /\ restoreOutcome' = [restoreType |-> req.restoreType, mode |-> req.mode, ok |-> TRUE,
                         rollback |-> done.rollback, notice |-> done.notice,
                         cancels |-> done.cancels]
           /\ chatMessages' = reconcileMessages(chatMessages, done.messages, messageVersionMap,
                                                req.mode = "restore")
           /\ messageVersionMap' = VersionsOf(chatMessages')
           /\ executing' = IF executing = req.id THEN NoRequest ELSE executing
           /\ inFlight' = IF executing = req.id THEN inFlight - 1 ELSE inFlight
           /\ lastDispatch' = IF executing = req.id THEN Null ELSE lastDispatch
    /\ inbox' = Tail(inbox)
    /\ UNCHANGED <<gestureVars, mergeVars, callerVars, selectionVars, requestCount, confirmed,
                   enableCheckpoints>>

\* Mutant: a failed restore is reported and checkpoints stay enabled.
EngineRestoreFails_keepsCheckpoints ==
    /\ inbox # <<>>
    /\ LET req == Head(inbox)
       IN  /\ restoreOutcome' = [restoreType |-> req.restoreType, mode |-> req.mode, ok |-> FALSE,
                         rollback |-> FALSE, notice |-> FALSE, cancels |-> 0]
           /\ reported' = [id |-> req.id, error |-> "RestoreFailure"]
           /\ executing' = IF executing = req.id THEN NoRequest ELSE executing
           /\ inFlight' = IF executing = req.id THEN inFlight - 1 ELSE inFlight
           /\ lastDispatch' = IF executing = req.id THEN Null ELSE lastDispatch
    /\ inbox' = Tail(inbox)
    /\ UNCHANGED <<gestureVars, logVars, mergeVars, atomCall, keyboardVars, derivedList, menuView, toolVars, releaseVars,
                   selectionVars, requestCount, confirmed, clineMessages, clock, workspace,
                   enableCheckpoints>>

\* Mutant: a request that failed is put back to be tried again.
EngineRestoreFails_retries ==
    /\ inbox # <<>>
    /\ LET req == Head(inbox)
       IN  /\ restoreOutcome' = [restoreType |-> req.restoreType, mode |-> req.mode, ok |-> FALSE,
                         rollback |-> FALSE, notice |-> FALSE, cancels |-> 0]
           /\ reported' = [id |-> req.id, error |-> "RestoreFailure"]
           /\ executing' = IF executing = req.id THEN NoRequest ELSE executing
           /\ inFlight' = IF executing = req.id THEN inFlight - 1 ELSE inFlight
           /\ lastDispatch' = IF executing = req.id THEN Null ELSE lastDispatch
           /\ inbox' = Append(Tail(inbox), req)
    /\ enableCheckpoints' = FALSE
    /\ UNCHANGED <<gestureVars, logVars, mergeVars, atomCall, keyboardVars, derivedList, menuView, toolVars, releaseVars,
                   selectionVars, requestCount, confirmed, clineMessages, clock, workspace>>

\* The engine handles the oldest request and fails: the error is surfaced
\* and checkpoint creation is disabled for the rest of the session.
EngineRestoreFails ==
    /\ inbox # <<>>
    /\ LET req == Head(inbox)
       IN  /\ restoreOutcome' = [restoreType |-> req.restoreType, mode |-> req.mode, ok |-> FALSE,
                         rollback |-> FALSE, notice |-> FALSE, cancels |-> 0]
           /\ reported' = [id |-> req.id, error |-> "RestoreFailure"]
           /\ executing' = IF executing = req.id THEN NoRequest ELSE executing
           /\ inFlight' = IF executing = req.id THEN inFlight - 1 ELSE inFlight
           /\ lastDispatch' = IF executing = req.id THEN Null ELSE lastDispatch
    /\ inbox' = Tail(inbox)
    /\ enableCheckpoints' = FALSE
    /\ UNCHANGED <<gestureVars, logVars, mergeVars, atomCall, keyboardVars, derivedList, menuView, toolVars, releaseVars,
                   selectionVars, requestCount, confirmed, clineMessages, clock, workspace>>

(***************************************************************************)
(* The selection atoms under their callers (spec.md 4.3): every call of an *)
(* atom is recorded with what it returned, and the log changes under the   *)
(* session.                                                                *)
(***************************************************************************)

\* Checkpoints of the longest log of a selection session.
MaxCheckpoints == 3

\* The log with the checkpoints 1..k.
SessionLog(k) == [i \in 1..k |-> CheckpointMsg(i)]

NoAtomCall == [op |-> "none", result |-> FALSE, cursor |-> 0, scopeNavigated |-> FALSE]

\* The record of a call: the atom, what it returned, the cursor it found, and
\* whether the scope cursor has been moved since the session was entered.
AtomCalled(op, result, cursor, scopeNavigated) ==
    [op |-> op, result |-> result, cursor |-> cursor, scopeNavigated |-> scopeNavigated]

CallerInit ==
    /\ atomCall = NoAtomCall
    /\ modalOwner = "none"
    /\ isStreaming = FALSE
    /\ keyHandledBy = "none"
    /\ derivedList = <<Null>>
    /\ reported = Null
    /\ menuView = [rendered |-> FALSE, moreAbove |-> <<>>, rows |-> <<>>, moreBelow |-> <<>>]
    /\ consecutiveMistakeCount = 0
    /\ openTabs = {}
    /\ toolCall = [block |-> [partial |-> FALSE, action |-> "", file |-> NullText,
                              files |-> [kind |-> "undefined", items |-> <<>>]],
                   approval |-> "approved", closeFails |-> FALSE, mistakesBefore |-> 0,
                   tabsBefore |-> {},
                   toolErrors |-> 0, results |-> <<>>, handledErrors |-> 0, approvals |-> 0,
                   outcome |-> "none"]
    /\ parsed = [input |-> <<>>, result |-> [path |-> <<>>, line |-> <<>>]]
    /\ releasesCache = <<>>
    /\ loadCalls = <<>>
    /\ importCount = 0
    /\ loading = FALSE
    /\ modal = [open |-> FALSE, instance |-> 0, currentVersion |-> "0.0.0",
                effectPending |-> FALSE, renderPending |-> FALSE]
    /\ viewed = <<>>

\* return value of enterCheckpointSelectionModeAtom
enterCheckpointSelectionModeResult == hasCheckpointsAtom(chatMessages)

\* return value of confirmCheckpointSelectionAtom
confirmCheckpointSelectionResult ==
    currentSelectedCheckpointAtom(chatMessages, selectedCheckpointIndex) # Null

CallEnter ==
    /\ IsIdle
    /\ enterCheckpointSelectionModeAtom
    /\ atomCall' = AtomCalled("enter", enterCheckpointSelectionModeResult,
                              selectedCheckpointIndex, FALSE)
    /\ UNCHANGED <<gestureVars, logVars, mergeVars, coordinatorVars, engineVars,
                   keyboardVars, derivedList, reported, menuView, toolVars, releaseVars>>

CallNavigateCheckpointUp ==
    /\ Mode = "choosingCheckpoint"
    /\ navigateCheckpointUpAtom
    /\ atomCall' = AtomCalled("navigateCheckpointUp", TRUE, selectedCheckpointIndex,
                              atomCall.scopeNavigated)
    /\ UNCHANGED <<gestureVars, logVars, mergeVars, coordinatorVars, engineVars,
                   keyboardVars, derivedList, reported, menuView, toolVars, releaseVars>>

CallNavigateCheckpointDown ==
    /\ Mode = "choosingCheckpoint"
    /\ navigateCheckpointDownAtom
    /\ atomCall' = AtomCalled("navigateCheckpointDown", TRUE, selectedCheckpointIndex,
                              atomCall.scopeNavigated)
    /\ UNCHANGED <<gestureVars, logVars, mergeVars, coordinatorVars, engineVars,
                   keyboardVars, derivedList, reported, menuView, toolVars, releaseVars>>

CallConfirm ==
    /\ Mode = "choosingCheckpoint"
    /\ confirmCheckpointSelectionAtom
    /\ atomCall' = AtomCalled("confirm", confirmCheckpointSelectionResult,
                              selectedCheckpointIndex, atomCall.scopeNavigated)
    /\ UNCHANGED <<gestureVars, logVars, mergeVars, coordinatorVars, engineVars,
                   keyboardVars, derivedList, reported, menuView, toolVars, releaseVars>>

\* cancel in ChoosingCheckpoint, or the clear at the dispatch of a restore
CallExit ==
    /\ Mode \in {"choosingCheckpoint", "choosingScope"}
    /\ exitCheckpointSelectionModeAtom
    /\ atomCall' = AtomCalled("exit", TRUE, selectedCheckpointIndex, FALSE)
    /\ UNCHANGED <<gestureVars, logVars, mergeVars, coordinatorVars, engineVars,
                   keyboardVars, derivedList, reported, menuView, toolVars, releaseVars>>

CallBack ==
    /\ Mode = "choosingScope"
    /\ backToCheckpointSelectionAtom
    /\ atomCall' = AtomCalled("back", TRUE, selectedRestoreTypeIndex, atomCall.scopeNavigated)
    /\ UNCHANGED <<gestureVars, logVars, mergeVars, coordinatorVars, engineVars,
                   keyboardVars, derivedList, reported, menuView, toolVars, releaseVars>>

CallNavigateRestoreTypeUp ==
    /\ Mode = "choosingScope"
    /\ navigateRestoreTypeUpAtom
    /\ atomCall' = AtomCalled("navigateRestoreTypeUp", TRUE, selectedRestoreTypeIndex, TRUE)
    /\ UNCHANGED <<gestureVars, logVars, mergeVars, coordinatorVars, engineVars,
                   keyboardVars, derivedList, reported, menuView, toolVars, releaseVars>>

CallNavigateRestoreTypeDown ==
    /\ Mode = "choosingScope"
    /\ navigateRestoreTypeDownAtom
    /\ atomCall' = AtomCalled("navigateRestoreTypeDown", TRUE, selectedRestoreTypeIndex, TRUE)
    /\ UNCHANGED <<gestureVars, logVars, mergeVars, coordinatorVars, engineVars,
                   keyboardVars, derivedList, reported, menuView, toolVars, releaseVars>>

\* chatMessagesAtom is written by the log's owner at any time: the log grows
\* by new checkpoints or is cut back.
LogUpdate(k) ==
    /\ chatMessages' = SessionLog(k)
    /\ chatMessages' # chatMessages
    /\ messageVersionMap' = VersionsOf(chatMessages')
    /\ atomCall' = AtomCalled("log", TRUE, selectedCheckpointIndex, atomCall.scopeNavigated)
    /\ UNCHANGED <<gestureVars, mergeVars, sessionVars, keyboardVars, derivedList, reported, menuView, toolVars, releaseVars>>

(***************************************************************************)
(* Routing of the cancel key (spec.md 4.3)                                 *)
(***************************************************************************)

\* The modal interactions that claim the cancel key.
ModalOwners == {"approval", "followup", "autocomplete", "history", "shell"}

\* Mutant: only streaming keeps the cancel key from the gesture detector
\* (the feature plan's keyboardHandlerAtom tests the double press before it
\* routes to the modal interactions).
CancelKeyOwner_ignoresModal ==
    IF checkpointSelectionMode \/ restoreTypeSelectionMode THEN "session"
    ELSE IF isStreaming THEN "streaming"
    ELSE "detector"

\* Who handles a cancel key pressed now: the selection session while it is
\* open, else the modal interaction that claims the key, else the running
\* generation, else the gesture detector.
CancelKeyOwner ==
    IF checkpointSelectionMode \/ restoreTypeSelectionMode THEN "session"
    ELSE IF modalOwner # "none" THEN modalOwner
    ELSE IF isStreaming THEN "streaming"
    ELSE "detector"

\* One cancel key at clock reading now.
CancelKey(now) ==
    LET owner == CancelKeyOwner
        r == recordEscPressAtom(lastEscPressTime, now)
    IN  /\ keyHandledBy' = owner
        /\ CASE owner = "session" ->
                  /\ IF restoreTypeSelectionMode
                     THEN backToCheckpointSelectionAtom
                     ELSE exitCheckpointSelectionModeAtom
                  /\ UNCHANGED lastEscPressTime
             [] owner = "detector" ->
                  /\ lastEscPressTime' = r.last
                  /\ IF r.isDouble
                     THEN enterCheckpointSelectionModeAtom
                     ELSE UNCHANGED selectionVars
             [] OTHER ->
                  UNCHANGED <<lastEscPressTime, selectionVars>>
        /\ UNCHANGED <<escCall, logVars, mergeVars, coordinatorVars, engineVars,
                       atomCall, modalOwner, isStreaming, derivedList, reported, menuView, toolVars, releaseVars>>

\* A modal interaction opens or closes.
SetModalOwner(owner) ==
    /\ owner # modalOwner
    /\ modalOwner' = owner
    /\ UNCHANGED <<gestureVars, logVars, mergeVars, sessionVars,
                   atomCall, isStreaming, keyHandledBy, derivedList, reported, menuView, toolVars, releaseVars>>

\* A generation starts or ends.
SetStreaming ==
    /\ isStreaming' = ~isStreaming
    /\ UNCHANGED <<gestureVars, logVars, mergeVars, sessionVars,
                   atomCall, modalOwner, keyHandledBy, derivedList, reported, menuView, toolVars, releaseVars>>

NextGesture ==
    \/ \E now \in Times : EscPress(now)
    \/ ResetEscTimer

InitGesture == GestureInit /\ LogInit /\ MergeIdle /\ SessionInit /\ CallerInit

SpecGesture == InitGesture /\ [][NextGesture]_vars

Init == GestureInit /\ LogInit /\ MergeIdle /\ SessionInit /\ CallerInit

Next ==
    \/ DoubleGesture
    \/ NavigateCheckpointUp
    \/ NavigateCheckpointDown
    \/ ConfirmCheckpoint
    \/ CancelCheckpoint
    \/ NavigateRestoreTypeUp
    \/ NavigateRestoreTypeDown
    \/ CancelScope
    \/ ConfirmScope
    \/ RestoreTimeout
    \/ EngineSayCheckpoint
    \/ EngineSayUser
    \/ EngineRestore
    \/ EngineRestoreFails

Spec == Init /\ [][Next]_vars

\* C7: of two consecutive presses at t1 then t2 with no reset in between, the
\* second is classified double exactly when 0 < t2 - t1 <= WINDOW.
C7_DoubleIffWithinWindow ==
    (escCall.op = "press" /\ escCall.prevOp = "press")
        => (escCall.isDouble <=>
              (0 < escCall.now - escCall.prevNow
               /\ escCall.now - escCall.prevNow <= DOUBLE_ESC_WINDOW_MS))

C7_Witness ==
    /\ escCall.op = "press" /\ escCall.prevOp = "press"
    /\ escCall.now - escCall.prevNow = DOUBLE_ESC_WINDOW_MS
    /\ escCall.isDouble

InitMerge ==
    /\ GestureInit
    /\ SessionInit
    /\ CallerInit
    /\ chatMessages \in BoundedLogs
    /\ messageVersionMap = VersionsOf(chatMessages)
    /\ pushIncoming \in BoundedLogs
    /\ pushTruncating \in BOOLEAN
    /\ mergeBefore = chatMessages
    /\ mergeStage = 0

\* The authoritative list pushIncoming is merged into the local log; the
\* same list may be pushed a second time (a repeated push).
MergePush ==
    /\ mergeStage < 2
    /\ chatMessages' = reconcileMessages(chatMessages, pushIncoming, messageVersionMap, pushTruncating)
    /\ messageVersionMap' = VersionsOf(chatMessages')
    /\ mergeStage' = mergeStage + 1
    /\ UNCHANGED <<gestureVars, sessionVars, callerVars, pushIncoming, pushTruncating, mergeBefore>>

NextMerge == MergePush

SpecMerge == InitMerge /\ [][NextMerge]_vars

SharedKeys == Keys(chatMessages) \cap Keys(pushIncoming)

\* C26: when the local entry of a key is finalized and the incoming entry is
\* partial, the merge keeps the local entry unless the incoming version is
\* strictly greater than the version recorded for the key; an incoming
\* partial of an equal or lower version is rejected.
C26_FinalizedYieldsOnlyToNewerPartial ==
    [][mergeStage' = mergeStage + 1 =>
         \A k \in SharedKeys :
            LET existingMsg == MsgAt(chatMessages, k)
                incomingMsg == MsgAt(pushIncoming, k)
            IN  (~existingMsg.partial /\ incomingMsg.partial) =>
                    MsgAt(chatMessages', k) =
                        IF getMessageContentLength(incomingMsg) > VersionOf(messageVersionMap, k)
                        THEN incomingMsg
                        ELSE existingMsg
      ]_vars

\* One merge met both cases: the finalized entry of key 1 gave way to a
\* longer partial, the finalized entry of key 2 was kept against a partial
\* of its own length.
C26_Witness ==
    /\ mergeStage = 1
    /\ mergeBefore = <<TextMsg(1, FALSE, 1), TextMsg(2, FALSE, 2)>>
    /\ pushIncoming = <<TextMsg(1, TRUE, 2), TextMsg(2, TRUE, 2)>>
    /\ chatMessages = <<TextMsg(1, TRUE, 2), TextMsg(2, FALSE, 2)>>

\* C27: an incoming entry replaces the streaming local entry of its key if
\* and only if its version is not lower than the local version; a push of a
\* lower version leaves the local entry as it is.
C27_StreamingYieldsIffNotLower ==
    [][mergeStage' = mergeStage + 1 =>
         \A k \in SharedKeys :
            LET existingMsg == MsgAt(chatMessages, k)
                incomingMsg == MsgAt(pushIncoming, k)
            IN  existingMsg.partial =>
                    MsgAt(chatMessages', k) =
                        IF getMessageContentLength(incomingMsg) >= getMessageContentLength(existingMsg)
                        THEN incomingMsg
                        ELSE existingMsg
      ]_vars

\* One merge met both cases: the streaming entry of key 1 was kept against a
\* shorter push, the streaming entry of key 2 was replaced by the finalized
\* entry of its own length.
C27_Witness ==
    /\ mergeStage = 1
    /\ mergeBefore = <<TextMsg(1, TRUE, 2), TextMsg(2, TRUE, 2)>>
    /\ pushIncoming = <<TextMsg(1, TRUE, 1), TextMsg(2, FALSE, 2)>>
    /\ chatMessages = <<TextMsg(1, TRUE, 2), TextMsg(2, FALSE, 2)>>

C29_IncrementalMergeIdempotent ==
    [][(mergeStage = 1 /\ mergeStage' = 2 /\ ~pushTruncating) =>
         /\ chatMessages' = chatMessages
         /\ messageVersionMap' = messageVersionMap
      ]_vars

\* The list was merged twice into a log that it changed the first time: it
\* replaced the streaming entry of key 1 and omitted key 2, which was kept.
C29_Witness ==
    /\ mergeStage = 2 /\ ~pushTruncating
    /\ mergeBefore = <<TextMsg(1, TRUE, 1), TextMsg(2, FALSE, 1)>>
    /\ pushIncoming = <<TextMsg(1, TRUE, 2)>>
    /\ chatMessages = <<TextMsg(1, TRUE, 2), TextMsg(2, FALSE, 1)>>

(***************************************************************************)
(* Selection session and restore: properties                               *)
(***************************************************************************)

C4_EffectsRestrictedToScope ==
    [][(Len(inbox') < Len(inbox) /\ restoreOutcome'.ok) =>
         LET req == Head(inbox)
             did == restoreOutcome'
             KeptKeys == { k \in Keys(clineMessages) : k <= req.ts }
         IN  /\ req.restoreType = "code" =>
                    /\ clineMessages' = clineMessages
                    /\ workspace' = req.commitHash
                    /\ did.rollback /\ did.notice
             /\ req.restoreType = "conversation" =>
                    /\ workspace' = workspace
                    /\ ~did.rollback /\ ~did.notice
                    /\ Keys(clineMessages') = KeptKeys \cup {clock'}
                    /\ clineMessages'[Len(clineMessages')].say = "api_req_deleted"
             /\ req.restoreType = "both" =>
                    /\ workspace' = req.commitHash
                    /\ did.rollback /\ did.notice
                    /\ Keys(clineMessages') = KeptKeys \cup {clock'}
                    /\ clineMessages'[Len(clineMessages')].say = "api_req_deleted"
      ]_vars

\* A code-only restore was handled: the workspace is rolled back to a
\* checkpoint and the events written after that checkpoint are still there.
C4_Witness ==
    /\ restoreOutcome # Null
    /\ restoreOutcome.ok /\ restoreOutcome.rollback /\ restoreOutcome.restoreType = "code"
    /\ \E i \in DOMAIN clineMessages :
          /\ workspace = clineMessages[i].text
          /\ i < Len(clineMessages)
    /\ \A i \in DOMAIN clineMessages : clineMessages[i].say # "api_req_deleted"

\* C5: the request dispatched at scope confirm carries the timestamp and
\* snapshot reference of the checkpoint frozen at checkpoint confirm, the
\* scope under the scope cursor and mode restore; while the scope is chosen
\* the frozen checkpoint stays the one confirmed, whatever the navigation
\* and the log do.
C5_RequestCarriesFrozenCheckpoint ==
    [][/\ requestCount' > requestCount =>
            LET req == inbox'[Len(inbox')]
            IN  /\ req.ts = confirmed.ts
                /\ req.commitHash = confirmed.commitHash
                /\ req.restoreType = CASE selectedRestoreTypeIndex = 0 -> "both"
                                        [] selectedRestoreTypeIndex = 1 -> "conversation"
                                        [] selectedRestoreTypeIndex = 2 -> "code"
                /\ req.mode = "restore"
       /\ (restoreTypeSelectionMode /\ restoreTypeSelectionMode') =>
            /\ selectedCheckpoint' = selectedCheckpoint
            /\ selectedCheckpoint = confirmed
      ]_vars

\* A request dispatched with the scope cursor on the last option, after the
\* log changed so that the list row under the checkpoint cursor is no longer
\* the frozen checkpoint.
C5_Witness ==
    /\ lastDispatch # Null
    /\ lastDispatch.moved
    /\ lastDispatch.scopeCursor = 2

\* C6 (as claimed): cancel in ChoosingScope returns to ChoosingCheckpoint
\* with checkpointCursor = 0.
C6_CancelScopeResetsCheckpointCursor ==
    [][(restoreTypeSelectionMode /\ checkpointSelectionMode') => selectedCheckpointIndex' = 0]_vars

\* C6 (amended): cancel in ChoosingScope returns to ChoosingCheckpoint with
\* the checkpoint cursor where it was at confirm, and scopeCursor = 0.
C6_CancelScopeKeepsCheckpointCursor ==
    [][(restoreTypeSelectionMode /\ checkpointSelectionMode') =>
          /\ ~restoreTypeSelectionMode'
          /\ selectedCheckpointIndex' = selectedCheckpointIndex
          /\ selectedRestoreTypeIndex' = 0]_vars

\* Back in ChoosingCheckpoint after a cancel in ChoosingScope (the frozen
\* checkpoint is still set), with the cursor on a later row.
C6_Witness ==
    /\ checkpointSelectionMode /\ ~restoreTypeSelectionMode
    /\ selectedCheckpoint # Null
    /\ selectedCheckpointIndex > 0

InitSelection ==
    /\ GestureInit
    /\ MergeIdle
    /\ SessionInit
    /\ CallerInit
    /\ chatMessages \in { SessionLog(k) : k \in 0..MaxCheckpoints }
    /\ messageVersionMap = VersionsOf(chatMessages)

NextSelection ==
    \/ CallEnter
    \/ CallNavigateCheckpointUp
    \/ CallNavigateCheckpointDown
    \/ CallConfirm
    \/ CallExit
    \/ CallBack
    \/ CallNavigateRestoreTypeUp
    \/ CallNavigateRestoreTypeDown
    \/ \E k \in 0..MaxCheckpoints : LogUpdate(k)

SpecSelection == InitSelection /\ [][NextSelection]_vars

\* C11: a double gesture in Idle on a log without checkpoint marker leaves
\* the session as it is (Idle, both flags, both cursors, pendingCheckpoint)
\* and the enter operation reports false.
C11_EnterWithoutCheckpointsIsNoOp ==
    [][(atomCall'.op = "enter" /\ ~hasCheckpointsAtom(chatMessages)) =>
          /\ ~atomCall'.result
          /\ selectionVars' = selectionVars
          /\ ~checkpointSelectionMode' /\ ~restoreTypeSelectionMode'
          /\ chatMessages' = chatMessages]_vars

C11_Witness ==
    /\ atomCall.op = "enter" /\ ~atomCall.result
    /\ chatMessages = <<>>
    /\ ~checkpointSelectionMode /\ ~restoreTypeSelectionMode
    /\ selectedCheckpointIndex = 0 /\ selectedRestoreTypeIndex = 0
    /\ selectedCheckpoint = Null

C13_ScopeEntryResetsScopeCursor ==
    [][(~restoreTypeSelectionMode /\ restoreTypeSelectionMode') => selectedRestoreTypeIndex' = 0]_vars

\* ChoosingScope re-entered after the scope cursor was moved in an earlier
\* visit of the same session.
C13_Witness ==
    /\ atomCall.op = "confirm" /\ atomCall.result /\ atomCall.scopeNavigated
    /\ restoreTypeSelectionMode
    /\ selectedRestoreTypeIndex = 0

\* C14: navigation wraps: with n >= 1 rows and the cursor c in 0..n-1, up
\* yields (c - 1) mod n and down (c + 1) mod n, in the checkpoint list and,
\* with n = 3, in the scope list; navigation changes nothing but the cursor
\* of its own list.
C14_NavigationWraps ==
    [][LET n == checkpointCountAtom(chatMessages)
           c == selectedCheckpointIndex
           s == selectedRestoreTypeIndex
           Others == <<checkpointSelectionMode, restoreTypeSelectionMode, selectedCheckpoint,
                       chatMessages>>
       IN  /\ (atomCall'.op = "navigateCheckpointUp" /\ n >= 1 /\ c \in 0..(n - 1)) =>
                 /\ selectedCheckpointIndex' = (c + n - 1) % n
                 /\ n = 1 => selectedCheckpointIndex' = c
                 /\ selectedRestoreTypeIndex' = s /\ Others' = Others
           /\ (atomCall'.op = "navigateCheckpointDown" /\ n >= 1 /\ c \in 0..(n - 1)) =>
                 /\ selectedCheckpointIndex' = (c + 1) % n
                 /\ n = 1 => selectedCheckpointIndex' = c
                 /\ selectedRestoreTypeIndex' = s /\ Others' = Others
           /\ (atomCall'.op = "navigateRestoreTypeUp" /\ s \in 0..2) =>
                 /\ selectedRestoreTypeIndex' = (s + 2) % 3
                 /\ selectedCheckpointIndex' = c /\ Others' = Others
           /\ (atomCall'.op = "navigateRestoreTypeDown" /\ s \in 0..2) =>
                 /\ selectedRestoreTypeIndex' = (s + 1) % 3
                 /\ selectedCheckpointIndex' = c /\ Others' = Others
      ]_vars

\* Up from the first of three rows landed on the last.
C14_Witness ==
    /\ atomCall.op = "navigateCheckpointUp" /\ atomCall.cursor = 0
    /\ checkpointCountAtom(chatMessages) = 3
    /\ selectedCheckpointIndex = 2
\* C15: cancel in ChoosingCheckpoint succeeds in a single step: it is always
\* possible, and afterwards the session is Idle with both cursors 0 and
\* pendingCheckpoint null, the event log is unchanged and no restore request
\* has been sent.
C15_CancelCheckpointDiscardsSession ==
    [][/\ (checkpointSelectionMode /\ ~restoreTypeSelectionMode) => ENABLED CallExit
       /\ (atomCall'.op = "exit" /\ checkpointSelectionMode /\ ~restoreTypeSelectionMode) =>
             /\ ~checkpointSelectionMode' /\ ~restoreTypeSelectionMode'
             /\ executing' = NoRequest
             /\ selectedCheckpointIndex' = 0 /\ selectedRestoreTypeIndex' = 0
             /\ selectedCheckpoint' = Null
             /\ chatMessages' = chatMessages /\ clineMessages' = clineMessages
             /\ inbox' = inbox /\ requestCount' = requestCount
      ]_vars

\* A session cancelled with the checkpoint cursor on a later row.
C15_Witness ==
    /\ atomCall.op = "exit" /\ atomCall.cursor > 0
    /\ ~checkpointSelectionMode /\ ~restoreTypeSelectionMode
    /\ selectedCheckpointIndex = 0 /\ selectedRestoreTypeIndex = 0
    /\ selectedCheckpoint = Null
    /\ inbox = <<>> /\ requestCount = 0

(***************************************************************************)
(* Restore outcomes: the bounded wait of the coordinator always ends       *)
(***************************************************************************)

\* The timer of the bounded wait fires unless the restore ended before.
SpecLive == Init /\ [][Next]_vars /\ WF_vars(RestoreTimeout)

\* C16: from the scope confirm on the session shows neither list; the
\* restore ends (engine success, engine failure or timeout) and when it ends
\* the session is Idle.
C16_RestoreEndsInIdle ==
    /\ [](executing # NoRequest => (~checkpointSelectionMode /\ ~restoreTypeSelectionMode))
    /\ [][(executing # NoRequest /\ executing' = NoRequest) =>
             (~checkpointSelectionMode' /\ ~restoreTypeSelectionMode')]_vars
    /\ (executing # NoRequest) ~>
           (executing = NoRequest /\ ~checkpointSelectionMode /\ ~restoreTypeSelectionMode)

\* The session is Idle after the engine failed the only restore dispatched.
C16_Witness ==
    /\ requestCount = 1 /\ inbox = <<>>
    /\ restoreOutcome # Null /\ ~restoreOutcome.ok
    /\ executing = NoRequest
    /\ ~checkpointSelectionMode /\ ~restoreTypeSelectionMode
    /\ ~enableCheckpoints

(***************************************************************************)
(* Routing of the cancel key: specification and properties                 *)
(***************************************************************************)

NextKeyboard ==
    \/ \E now \in Times : CancelKey(now)
    \/ \E owner \in ModalOwners \cup {"none"} : SetModalOwner(owner)
    \/ SetStreaming
    \/ CallConfirm

SpecKeyboard == InitSelection /\ [][NextKeyboard]_vars

MaxLedgerTs == 3

\* Events of the longest ledger log.
MaxLedgerLen == 3

LedgerEvents ==
    UNION { {CheckpointMsg(ts), UserMsg(ts), TextlessUserMsg(ts), BlankUserMsg(ts)} :
            ts \in 1..MaxLedgerTs }

\* Every log of at most MaxLedgerLen checkpoint markers and user messages
\* (with a text, without one, with a blank one), in any order, a ts used more
\* than once included.
LedgerLogs == UNION { [1..n -> LedgerEvents] : n \in 0..MaxLedgerLen }

InitLedger ==
    /\ GestureInit
    /\ MergeIdle
    /\ SessionInit
    /\ CallerInit
    /\ chatMessages \in LedgerLogs
    /\ messageVersionMap = VersionsOf(<<>>)

\* checkpointListAtom is read.
DeriveCheckpoints ==
    /\ derivedList = <<Null>>
    /\ derivedList' = checkpointListAtom(chatMessages)
    /\ UNCHANGED <<gestureVars, logVars, mergeVars, sessionVars, atomCall, keyboardVars, reported, menuView, toolVars, releaseVars>>

NextLedger == DeriveCheckpoints

SpecLedger == InitLedger /\ [][NextLedger]_vars

\* C18: for every log, whatever the order of its entries, the derived list
\* is sorted by timestamp, most recent first.
C18_ListSortedDescending ==
    derivedList # <<Null>> =>
        \A i, j \in DOMAIN derivedList : i < j => derivedList[i].ts >= derivedList[j].ts

\* The list of a log that holds its checkpoints oldest first.
C18_Witness ==
    /\ Len(chatMessages) = 3
    /\ \A i \in 1..3 : chatMessages[i] = CheckpointMsg(i)
    /\ Len(derivedList) = 3
    /\ \A i \in 1..3 : derivedList[i].ts = 4 - i

NearestEarlierUserText(log, beforeTs) ==
    LET Users == { i \in DOMAIN log : log[i].say = "user_feedback" /\ log[i].ts < beforeTs }
    IN  IF Users = {} THEN NullText
        ELSE LET nearest == CHOOSE i \in Users : \A j \in Users : log[j].ts <= log[i].ts
             IN  log[nearest].text

\* C20 (as claimed): every record's preview is taken from the user message
\* with the greatest timestamp strictly below the checkpoint's, whatever the
\* order of the entries in the log.
C20_PreviewFromNearestEarlierUserMessage ==
    derivedList # <<Null>> =>
        \A i \in DOMAIN derivedList :
            derivedList[i].userMessagePreview = NearestEarlierUserText(chatMessages, derivedList[i].ts)

\* C21 (as claimed): a record's preview is null if and only if the log holds
\* no user message with a timestamp strictly below the checkpoint's.
C21_PreviewNullIffNoEarlierUserMessage ==
    derivedList # <<Null>> =>
        \A i \in DOMAIN derivedList :
            (derivedList[i].userMessagePreview = NullText) <=>
                ~\E j \in DOMAIN chatMessages :
                     /\ chatMessages[j].say = "user_feedback"
                     /\ chatMessages[j].ts < derivedList[i].ts

\* C21 (amended): a record's preview is null if and only if the log holds no
\* user message with a text and a timestamp strictly below the checkpoint's;
\* a user message at the same or a later timestamp, or without text, never
\* supplies the preview.
C21_PreviewNullIffNoEarlierUserText ==
    derivedList # <<Null>> =>
        \A i \in DOMAIN derivedList :
            (derivedList[i].userMessagePreview = NullText) <=>
                ~\E j \in DOMAIN chatMessages :
                     /\ chatMessages[j].say = "user_feedback"
                     /\ chatMessages[j].text # <<>>
                     /\ chatMessages[j].ts < derivedList[i].ts

\* A checkpoint with user messages at its own and at a later timestamp only:
\* the preview is null.
C21_Witness ==
    /\ chatMessages = <<UserMsg(2), CheckpointMsg(2), UserMsg(3)>>
    /\ derivedList # <<Null>>
    /\ Len(derivedList) = 1
    /\ derivedList[1].userMessagePreview = NullText

(***************************************************************************)
(* Restore errors (spec.md 4.4, 7)                                         *)
(***************************************************************************)

\* Number of checkpoint markers of a log.
CheckpointCount(log) == Cardinality({ i \in DOMAIN log : log[i].say = "checkpoint_saved" })

\* C23: whenever the engine fails on a restore request, the failure of that
\* request is surfaced to the user and checkpoint creation is disabled; once
\* disabled it stays disabled, and the engine writes no further checkpoint.
C23_FailureSurfacesErrorAndDisables ==
    [][/\ (Len(inbox') < Len(inbox) /\ ~restoreOutcome'.ok) =>
              /\ reported' = [id |-> Head(inbox).id, error |-> "RestoreFailure"]
              /\ ~enableCheckpoints'
       /\ ~enableCheckpoints =>
              /\ ~enableCheckpoints'
              /\ CheckpointCount(clineMessages') <= CheckpointCount(clineMessages)
      ]_vars

\* The first restore failed and a later one succeeded: checkpoint creation
\* is still disabled.
C23_Witness ==
    /\ reported = [id |-> 1, error |-> "RestoreFailure"]
    /\ restoreOutcome # Null /\ restoreOutcome.ok
    /\ requestCount = 2
    /\ ~enableCheckpoints

\* A request is sent only by the user's confirm of a scope, with an id of
\* its own, and leaves the session waiting; from there the next scope choice
\* is reached only through Idle, a gesture and a checkpoint confirm.
NeverRetried ==
    /\ inbox' # inbox /\ Len(inbox') >= Len(inbox) =>
           /\ Mode = "choosingScope" /\ selectedCheckpoint # Null
           /\ Len(inbox') = Len(inbox) + 1
           /\ SubSeq(inbox', 1, Len(inbox)) = inbox
           /\ inbox'[Len(inbox')].id = requestCount + 1
           /\ requestCount' = requestCount + 1
           /\ Mode' = "executing"
    /\ \A i \in DOMAIN inbox' :
           /\ inbox'[i].id <= requestCount'
           /\ \A j \in DOMAIN inbox' : i < j => inbox'[i].id < inbox'[j].id
    /\ Mode = "executing" => Mode' \in {"executing", "idle"}
    /\ Mode = "idle" => Mode' \in {"idle", "choosingCheckpoint"}
    /\ Mode = "choosingCheckpoint" => Mode' \in {"choosingCheckpoint", "choosingScope", "idle"}

RestoreModes == {"preview", "restore"}

\* The entry the local log may hold that the engine never wrote.
LocalOnlyMsg == TextMsg(MaxTs + 1, TRUE, 1)

\* A session that waits for its first request: the engine holds a log of
\* checkpoints and a workspace at any of its snapshots, the local log is the
\* engine's with or without an entry of its own, and the request names any
\* checkpoint, scope and mode.
InitEngine ==
    /\ GestureInit
    /\ MergeIdle
    /\ CallerInit
    /\ checkpointSelectionMode = FALSE
    /\ restoreTypeSelectionMode = FALSE
    /\ selectedCheckpointIndex = 0
    /\ selectedRestoreTypeIndex = 0
    /\ selectedCheckpoint = Null
    /\ confirmed = Null
    /\ lastDispatch = Null
    /\ enableCheckpoints = TRUE
    /\ restoreOutcome = Null
    /\ executing = 1
    /\ inFlight = 1
    /\ requestCount = 1
    /\ \E k \in 1..(MaxTs - 1) :
          /\ clineMessages = SessionLog(k)
          /\ clock = k
          /\ workspace \in { Hash(t) : t \in 0..k }
          /\ chatMessages \in {SessionLog(k), Append(SessionLog(k), LocalOnlyMsg)}
          /\ \E i \in 1..k, scopeIndex \in 0..2, mode \in RestoreModes :
                inbox = << [RestoreRequest(1, checkpointListAtom(SessionLog(k))[i], scopeIndex)
                              EXCEPT !.mode = mode] >>
    /\ messageVersionMap = VersionsOf(chatMessages)

NextEngine ==
    \/ EngineRestore
    \/ EngineRestoreFails

SpecEngine == InitEngine /\ [][NextEngine]_vars

MaxMenuLen == 13

\* CheckpointSelectionMenu.tsx:24: rows of the visible window
maxVisible == 10

Max(a, b) == IF a >= b THEN a ELSE b

Min(a, b) == IF a <= b THEN a ELSE b

\* Mutant: the window starts five rows above the cursor, wherever the list
\* ends.
CheckpointSelectionMenu_unclampedStart(checkpoints, selectedIndex) ==
    IF Len(checkpoints) = 0
    THEN [rendered |-> FALSE, moreAbove |-> <<>>, rows |-> <<>>, moreBelow |-> <<>>]
    ELSE LET startIndex == Max(0, selectedIndex - (maxVisible \div 2))
             endIndex == Min(startIndex + maxVisible, Len(checkpoints))
             visibleCheckpoints == SubSeq(checkpoints, startIndex + 1, endIndex)
         IN  [rendered |-> TRUE,
              moreAbove |-> IF startIndex > 0 THEN <<startIndex>> ELSE <<>>,
              rows |-> [index \in 1..Len(visibleCheckpoints) |->
                           [checkpoint |-> visibleCheckpoints[index],
                            index |-> startIndex + index - 1,
                            isSelected |-> startIndex + index - 1 = selectedIndex]],
              moreBelow |-> IF endIndex < Len(checkpoints)
                            THEN <<Len(checkpoints) - endIndex>>
                            ELSE <<>>]

\* Mutant: the window is the first rows of the list, wherever the cursor is.
CheckpointSelectionMenu_windowFromTop(checkpoints, selectedIndex) ==
    IF Len(checkpoints) = 0
    THEN [rendered |-> FALSE, moreAbove |-> <<>>, rows |-> <<>>, moreBelow |-> <<>>]
    ELSE LET startIndex == 0
             endIndex == Min(startIndex + maxVisible, Len(checkpoints))
             visibleCheckpoints == SubSeq(checkpoints, startIndex + 1, endIndex)
         IN  [rendered |-> TRUE,
              moreAbove |-> IF startIndex > 0 THEN <<startIndex>> ELSE <<>>,
              rows |-> [index \in 1..Len(visibleCheckpoints) |->
                           [checkpoint |-> visibleCheckpoints[index],
                            index |-> startIndex + index - 1,
                            isSelected |-> startIndex + index - 1 = selectedIndex]],
              moreBelow |-> IF endIndex < Len(checkpoints)
                            THEN <<Len(checkpoints) - endIndex>>
                            ELSE <<>>]

\* What the component renders: nothing for an empty list; else the "more
\* above" line with its count when the window starts below the first row,
\* a row per checkpoint of the window with its list index, and the "more
\* below" line with its count when the window ends before the last row.
CheckpointSelectionMenu(checkpoints, selectedIndex) ==
    IF Len(checkpoints) = 0
    THEN [rendered |-> FALSE, moreAbove |-> <<>>, rows |-> <<>>, moreBelow |-> <<>>]
    ELSE LET startIndex == Max(0, Min(selectedIndex - (maxVisible \div 2),
                                      Len(checkpoints) - maxVisible))
             endIndex == Min(startIndex + maxVisible, Len(checkpoints))
             visibleCheckpoints == SubSeq(checkpoints, startIndex + 1, endIndex)
         IN  [rendered |-> TRUE,
              moreAbove |-> IF startIndex > 0 THEN <<startIndex>> ELSE <<>>,
              rows |-> [index \in 1..Len(visibleCheckpoints) |->
                           [checkpoint |-> visibleCheckpoints[index],
                            index |-> startIndex + index - 1,
                            isSelected |-> startIndex + index - 1 = selectedIndex]],
              moreBelow |-> IF endIndex < Len(checkpoints)
                            THEN <<Len(checkpoints) - endIndex>>
                            ELSE <<>>]

\* The menu is open on a log of up to MaxMenuLen checkpoints with the cursor
\* on any row of the list.
InitMenu ==
    /\ GestureInit
    /\ MergeIdle
    /\ CallerInit
    /\ chatMessages \in { SessionLog(n) : n \in 0..MaxMenuLen }
    /\ messageVersionMap = VersionsOf(chatMessages)
    /\ checkpointSelectionMode = (chatMessages # <<>>)
    /\ restoreTypeSelectionMode = FALSE
    /\ selectedCheckpointIndex \in 0..Max(0, checkpointCountAtom(chatMessages) - 1)
    /\ selectedRestoreTypeIndex = 0
    /\ selectedCheckpoint = Null
    /\ executing = NoRequest
    /\ inFlight = 0
    /\ requestCount = 0
    /\ confirmed = Null
    /\ lastDispatch = Null
    /\ clineMessages = chatMessages
    /\ clock = Len(chatMessages)
    /\ workspace = Hash(Len(chatMessages))
    /\ enableCheckpoints = TRUE
    /\ inbox = <<>>
    /\ restoreOutcome = Null

\* The component is rendered with the checkpoint list and the cursor.
RenderMenu ==
    /\ menuView' = CheckpointSelectionMenu(checkpointListAtom(chatMessages), selectedCheckpointIndex)
    /\ UNCHANGED <<gestureVars, logVars, mergeVars, sessionVars, atomCall, keyboardVars,
                   derivedList, reported, toolVars, releaseVars>>

NextMenu == RenderMenu

SpecMenu == InitMenu /\ [][NextMenu]_vars

\* Count of an indicator line: the number it shows, 0 when it is not shown.
IndicatorCount(line) == IF line = <<>> THEN 0 ELSE line[1]

\* C30: for a list of n >= 1 checkpoints and a cursor in 0..n-1 the menu
\* shows min(10, n) rows of consecutive list indices; "more above" is shown
\* exactly when rows precede the window, "more below" exactly when rows
\* follow it, each with the number of those rows, and the count above plus
\* the rows shown plus the count below is n.
C30_MenuWindow ==
    menuView.rendered =>
        LET n == checkpointCountAtom(chatMessages)
            rows == menuView.rows
            first == rows[1].index
            last == rows[Len(rows)].index
        IN  /\ Len(rows) = Min(10, n)
            /\ \A i \in DOMAIN rows :
                  /\ rows[i].index = first + i - 1
                  /\ rows[i].index \in 0..(n - 1)
                  /\ rows[i].checkpoint = checkpointListAtom(chatMessages)[rows[i].index + 1]
            /\ (menuView.moreAbove # <<>>) <=> (first > 0)
            /\ (menuView.moreBelow # <<>>) <=> (last < n - 1)
            /\ IndicatorCount(menuView.moreAbove) = first
            /\ IndicatorCount(menuView.moreBelow) = n - 1 - last
            /\ IndicatorCount(menuView.moreAbove) + Len(rows) + IndicatorCount(menuView.moreBelow) = n

\* A list of 13 checkpoints with the cursor on row 7: the menu shows rows
\* 2..11 with "2 more" above and "1 more" below.
C30_Witness ==
    /\ menuView.rendered
    /\ checkpointCountAtom(chatMessages) = 13
    /\ selectedCheckpointIndex = 7
    /\ Len(menuView.rows) = 10
    /\ menuView.rows[1].index = 2
    /\ menuView.moreAbove = <<2>>
    /\ menuView.moreBelow = <<1>>

\* C37: for a list of n >= 1 checkpoints and a cursor s in 0..n-1 the window
\* satisfies 0 <= startIndex <= s < endIndex <= n: the row under the cursor
\* is among the rows shown, and it is the one row marked as selected.
C37_SelectedRowShown ==
    menuView.rendered =>
        LET n == checkpointCountAtom(chatMessages)
            rows == menuView.rows
            startIndex == rows[1].index
            endIndex == rows[Len(rows)].index + 1
        IN  /\ 0 <= startIndex
            /\ startIndex <= selectedCheckpointIndex
            /\ selectedCheckpointIndex < endIndex
            /\ endIndex <= n
            /\ \A i \in DOMAIN rows : rows[i].isSelected <=> (rows[i].index = selectedCheckpointIndex)
            /\ \E i \in DOMAIN rows : rows[i].isSelected

\* A list of 13 checkpoints with the cursor on the last row: the window is
\* the last ten rows and its last row is the selected one.
C37_Witness ==
    /\ menuView.rendered
    /\ checkpointCountAtom(chatMessages) = 13
    /\ selectedCheckpointIndex = 12
    /\ menuView.rows[1].index = 3
    /\ menuView.rows[10].isSelected
    /\ menuView.moreBelow = <<>>

(***************************************************************************)
(* Selection session: invariants (checkpoint.ts:85-105, 238-365)           *)
(***************************************************************************)

\* C34 (as claimed): in ChoosingCheckpoint the cursor is an index of the
\* checkpoint list derived from the log as it is, also after the log changed
\* under the open menu.
C34_CursorWithinList ==
    Mode = "choosingCheckpoint" =>
        /\ 0 <= selectedCheckpointIndex
        /\ selectedCheckpointIndex < checkpointCountAtom(chatMessages)

\* C36: in ChoosingScope the frozen checkpoint is not null; in Idle it is
\* null.
C36_PendingCheckpointMatchesMode ==
    /\ Mode = "choosingScope" => selectedCheckpoint # Null
    /\ Mode = "idle" => selectedCheckpoint = Null

\* The scope menu is open and the log was emptied under it: the frozen
\* checkpoint is still the one confirmed.
C36_Witness ==
    /\ Mode = "choosingScope"
    /\ atomCall.op = "log"
    /\ checkpointCountAtom(chatMessages) = 0
    /\ selectedCheckpoint # Null /\ selectedCheckpoint.ts = 3

(***************************************************************************)
(* The write atoms in any order (checkpoint.ts:269-365)                    *)
(***************************************************************************)

AtomOps == {"enter", "exit", "confirm", "back", "navigateCheckpointUp", "navigateCheckpointDown",
            "navigateRestoreTypeUp", "navigateRestoreTypeDown"}

\* One write atom is set, whatever the mode of the session.
SetAtom(op) ==
    /\ CASE op = "enter" -> enterCheckpointSelectionModeAtom
         [] op = "exit" -> exitCheckpointSelectionModeAtom
         [] op = "confirm" -> confirmCheckpointSelectionAtom
         [] op = "back" -> backToCheckpointSelectionAtom
         [] op = "navigateCheckpointUp" -> navigateCheckpointUpAtom
         [] op = "navigateCheckpointDown" -> navigateCheckpointDownAtom
         [] op = "navigateRestoreTypeUp" -> navigateRestoreTypeUpAtom
         [] op = "navigateRestoreTypeDown" -> navigateRestoreTypeDownAtom
    /\ atomCall' = AtomCalled(op,
                              CASE op = "enter" -> enterCheckpointSelectionModeResult
                                [] op = "confirm" -> confirmCheckpointSelectionResult
                                [] OTHER -> TRUE,
                              selectedCheckpointIndex, Mode # "idle")
    /\ UNCHANGED <<gestureVars, logVars, mergeVars, coordinatorVars, engineVars,
                   keyboardVars, derivedList, reported, menuView, toolVars, releaseVars>>

NextAtoms ==
    \/ \E op \in AtomOps : SetAtom(op)
    \/ \E k \in 0..MaxCheckpoints : LogUpdate(k)

SpecAtoms == InitSelection /\ [][NextAtoms]_vars

\* C35: after any sequence of the write atoms, on any log, the two mode
\* flags are not both true: the session is in exactly one of idle,
\* choosingCheckpoint and choosingScope.
C35_ModeFlagsExclusive ==
    /\ ~(checkpointSelectionMode /\ restoreTypeSelectionMode)
    /\ Cardinality({ m \in {"idle", "choosingCheckpoint", "choosingScope"} : Mode = m }) = 1

\* Confirm was set while the session was Idle, after an earlier session had
\* left the cursor on the second row: the scope menu is open and the
\* checkpoint menu is not.
C35_Witness ==
    /\ atomCall.op = "confirm" /\ atomCall.result /\ ~atomCall.scopeNavigated
    /\ atomCall.cursor = 1
    /\ restoreTypeSelectionMode /\ ~checkpointSelectionMode

(***************************************************************************)
(* manage_tabs tool (core/tools/manageTabsTool.ts)                         *)
(***************************************************************************)

\* Longest text given to parseFileWithLine.
MaxPathLen == 4

\* Texts are sequences of characters; these are the characters of the texts
\* that are parsed.
PathChars == {"a", "#", "-", "0", "1", "3"}

DigitChars == {"0", "1", "3"}

DigitValue(c) == CASE c = "0" -> 0 [] c = "1" -> 1 [] c = "3" -> 3

PathTexts == UNION { [1..n -> PathChars] : n \in 0..MaxPathLen }

\* String.prototype.lastIndexOf for one character: the last 0-based index
\* of c, or -1.
lastIndexOf(text, c) ==
    LET Hits == { i \in DOMAIN text : text[i] = c }
    IN  IF Hits = {} THEN -1
        ELSE (CHOOSE i \in Hits : \A j \in Hits : j <= i) - 1

\* Value of the longest run of digits a text starts with, after the digits
\* read so far (acc); <<>> when no digit has been read.
RECURSIVE ParseDigits(_, _, _)
ParseDigits(text, acc, seen) ==
    IF text # <<>> /\ Head(text) \in DigitChars
    THEN ParseDigits(Tail(text), 10 * acc + DigitValue(Head(text)), TRUE)
    ELSE IF seen THEN <<acc>> ELSE <<>>

\* parseInt with one argument: an optional sign and the longest run of
\* decimal digits that follows; the rest of the text is ignored. <<>> is NaN.
parseInt(text) ==
    IF text # <<>> /\ Head(text) = "-"
    THEN LET digits == ParseDigits(Tail(text), 0, FALSE)
         IN  IF digits = <<>> THEN <<>> ELSE <<0 - digits[1]>>
    ELSE ParseDigits(text, 0, FALSE)

\* The path and the line of "path#line"; line <<>> when the result has no
\* line.
parseFileWithLine(filePath) ==
    LET hashIndex == lastIndexOf(filePath, "#")
    IN  IF hashIndex = -1
        THEN [path |-> filePath, line |-> <<>>]
        ELSE LET pathPart == SubSeq(filePath, 1, hashIndex)
                 linePart == SubSeq(filePath, hashIndex + 2, Len(filePath))
                 lineNumber == parseInt(linePart)
             IN  IF lineNumber = <<>> \/ lineNumber[1] < 1
                 THEN [path |-> filePath, line |-> <<>>]
                 ELSE [path |-> pathPart, line |-> lineNumber]

\* parseFileWithLine is called with a text.
ParseFile(filePath) ==
    /\ parsed' = [input |-> filePath, result |-> parseFileWithLine(filePath)]
    /\ UNCHANGED <<gestureVars, logVars, mergeVars, sessionVars, atomCall, keyboardVars,
                   derivedList, reported, menuView, consecutiveMistakeCount, openTabs, toolCall,
                   releaseVars>>

NextParse == \E filePath \in PathTexts : ParseFile(filePath)

SpecParse == Init /\ [][NextParse]_vars

\* A text that is a decimal integer: digits alone, or a minus sign and
\* digits.
IsInteger(text) ==
    LET digits == IF text # <<>> /\ Head(text) = "-" THEN Tail(text) ELSE text
    IN  /\ digits # <<>>
        /\ \A i \in DOMAIN digits : digits[i] \in DigitChars

\* C33 (as claimed): when the text after the last '#' is an integer >= 1,
\* the result is the text before that '#' as path and the integer as line;
\* in every other case it is the whole input as path, without line.
C33_SplitsAtLastHashOnValidLine ==
    LET filePath == parsed.input
        hashIndex == lastIndexOf(filePath, "#")
        suffix == SubSeq(filePath, hashIndex + 2, Len(filePath))
    IN  IF hashIndex # -1 /\ IsInteger(suffix) /\ parseInt(suffix)[1] >= 1
        THEN parsed.result = [path |-> SubSeq(filePath, 1, hashIndex), line |-> parseInt(suffix)]
        ELSE parsed.result = [path |-> filePath, line |-> <<>>]

\* Most consecutive mistakes that are counted.
MaxMistakes == 2

\* A parameter the tool call does not have.
Undefined == "undefined"

\* !x for a text parameter: it is undefined or the empty text.
Falsy(text) == text = NullText \/ text = <<>>

\* The files of the workspace and document.lineCount of each.
lineCount == [p \in {<<"a">>, <<"b">>} |-> IF p = <<"a">> THEN 2 ELSE 1]

\* block.params.action: undefined, empty, open, close or another word.
ActionParams == {Undefined, "", "open", "close", "toggle"}

\* block.params.file: undefined, empty, a file, a file with a line that it
\* does not have, a file that does not exist.
FileParams == {NullText, <<>>, <<"a">>, <<"a", "#", "3">>, <<"c">>}

\* block.params.files: undefined, the empty text, a text that JSON.parse
\* rejects, or the text of an array of texts (items).
FilesParams ==
    {[kind |-> "undefined", items |-> <<>>],
     [kind |-> "empty", items |-> <<>>],
     [kind |-> "invalid", items |-> <<>>],
     [kind |-> "array", items |-> << <<"a">>, <<"b", "#", "1">> >>],
     [kind |-> "array", items |-> << <<"a">>, <<"b", "#", "3">> >>],
     [kind |-> "array", items |-> << <<"a">>, <<"b">>, <<"c">> >>]}

\* The tool calls: complete ones with any parameters, and partial ones, which
\* carry the action only.
ToolBlocks ==
    [partial : {FALSE}, action : ActionParams, file : FileParams, files : FilesParams]
        \cup [partial : {TRUE}, action : ActionParams, file : {NullText},
              files : {[kind |-> "undefined", items |-> <<>>]}]

\* askApproval resolves to true or to false, or it rejects.
Approvals == {"approved", "denied", "throws"}

\* A pushed tool result.
ToolResult(kind, key, opened, notFound) ==
    [kind |-> kind, key |-> key, opened |-> opened, notFound |-> notFound]

\* What an invocation did: the counter and the tabs after it, the tool errors
\* recorded, the results pushed, the calls of handleError and of askApproval.
ToolOutcome(count, tabs, toolErrors, results, approvals, outcome) ==
    [count |-> count, tabs |-> tabs, toolErrors |-> toolErrors, results |-> results,
     handledErrors |-> IF outcome = "threw" THEN 1 ELSE 0, approvals |-> approvals,
     outcome |-> outcome]

\* Mutant: an open without file and files passes validation.
validationError_openWithoutTarget(block) ==
    IF block.action \in {Undefined, ""} \/ block.action \notin {"open", "close"}
    THEN "missingParam:action"
    ELSE IF block.action = "close" /\ Falsy(block.file)
    THEN "missingParam:file"
    ELSE "none"

\* The validation of the parameters: the error result of the first check
\* that fails, "none" when all pass.
validationError(block) ==
    IF block.action \in {Undefined, ""} \/ block.action \notin {"open", "close"}
    THEN "missingParam:action"
    ELSE IF block.action = "open" /\ Falsy(block.file) /\ block.files.kind \in {"undefined", "empty"}
    THEN "openRequiresFile"
    ELSE IF block.action = "close" /\ Falsy(block.file)
    THEN "missingParam:file"
    ELSE "none"

\* The loop of handleOpenAction over the files that are left: a file that
\* does not exist is noted and skipped, a line out of range ends the call
\* with the files before it shown, every other file is shown in a tab.
RECURSIVE openFiles(_, _, _, _)
openFiles(filesToOpen, tabs, results, errors) ==
    IF filesToOpen = <<>>
    THEN [tabs |-> tabs,
          results |-> <<ToolResult("result", "opened", results, errors)>>,
          outcome |-> IF errors = <<>> THEN "opened" ELSE "fileNotFound"]
    ELSE LET fileInfo == Head(filesToOpen)
         IN  IF fileInfo.path \notin DOMAIN lineCount
             THEN openFiles(Tail(filesToOpen), tabs, results, Append(errors, fileInfo.path))
             ELSE IF /\ fileInfo.line # <<>>
                     /\ fileInfo.line[1] # 0
                     /\ (fileInfo.line[1] < 1 \/ fileInfo.line[1] > lineCount[fileInfo.path])
             THEN [tabs |-> tabs,
                   results |-> <<ToolResult("error", "lineOutOfRange", results, errors)>>,
                   outcome |-> "lineOutOfRange"]
             ELSE openFiles(Tail(filesToOpen), tabs \cup {fileInfo.path},
                            Append(results, fileInfo.path), errors)

\* handleOpenAction: the files of file or of files; more than two need the
\* approval, and a rejection of askApproval leaves the function as an
\* exception.
handleOpenAction(tabs, file, files, approval) ==
    IF Falsy(file) /\ files.kind = "invalid"
    THEN [tabs |-> tabs, approvals |-> 0, outcome |-> "invalidJson",
          results |-> <<ToolResult("error", "invalidJsonFiles", <<>>, <<>>)>>]
    ELSE LET filesToOpen ==
                 IF ~Falsy(file) THEN <<parseFileWithLine(file)>>
                 ELSE IF files.kind = "array"
                 THEN [i \in DOMAIN files.items |-> parseFileWithLine(files.items[i])]
                 ELSE <<>>
             bulk == Len(filesToOpen) > 2
         IN  IF bulk /\ approval = "throws"
             THEN [tabs |-> tabs, approvals |-> 1, outcome |-> "threw", results |-> <<>>]
             ELSE IF bulk /\ approval = "denied"
             THEN [tabs |-> tabs, approvals |-> 1, outcome |-> "denied", results |-> <<>>]
             ELSE [approvals |-> IF bulk THEN 1 ELSE 0]
                      @@ openFiles(filesToOpen, tabs, <<>>, <<>>)

\* handleCloseAction: the tab of the file as it was given is closed.
handleCloseAction(tabs, file, closeFails) ==
    IF file \notin tabs
    THEN [tabs |-> tabs, approvals |-> 0, outcome |-> "tabNotFound",
          results |-> <<ToolResult("error", "tabNotFound", <<>>, <<>>)>>]
    ELSE IF closeFails
    THEN [tabs |-> tabs, approvals |-> 0, outcome |-> "closeFailed",
          results |-> <<ToolResult("error", "closeFailed", <<>>, <<>>)>>]
    ELSE [tabs |-> tabs \ {file}, approvals |-> 0, outcome |-> "closed",
          results |-> <<ToolResult("result", "closedTab", <<>>, <<>>)>>]

\* manageTabsTool on a task with count mistakes and the tabs open; an
\* exception of the action is given to handleError.
manageTabsTool(count, tabs, block, approval, closeFails) ==
    IF block.partial
    THEN ToolOutcome(count, tabs, 0, <<>>, 0, "partial")
    ELSE IF validationError(block) # "none"
    THEN ToolOutcome(count + 1, tabs, 1,
                     <<ToolResult("error", validationError(block), <<>>, <<>>)>>, 0, "invalid")
    ELSE LET handled == IF block.action = "open"
                        THEN handleOpenAction(tabs, block.file, block.files, approval)
                        ELSE handleCloseAction(tabs, block.file, closeFails)
         IN  ToolOutcome(0, handled.tabs, 0, handled.results, handled.approvals,
                         handled.outcome)

\* The tool is invoked with a block; askApproval (asked by an open) and the
\* closing of a tab (tried by a close) go either way.
InvokeManageTabs(block, approval, closeFails) ==
    LET done == manageTabsTool(consecutiveMistakeCount, openTabs, block, approval, closeFails)
    IN  /\ done.count <= MaxMistakes
        /\ consecutiveMistakeCount' = done.count
        /\ openTabs' = done.tabs
        /\ toolCall' = [block |-> block, approval |-> approval, closeFails |-> closeFails,
                        mistakesBefore |-> consecutiveMistakeCount, tabsBefore |-> openTabs,
                        toolErrors |-> done.toolErrors, results |-> done.results,
                        handledErrors |-> done.handledErrors, approvals |-> done.approvals,
                        outcome |-> done.outcome]
        /\ UNCHANGED <<gestureVars, logVars, mergeVars, sessionVars, atomCall, keyboardVars,
                       derivedList, reported, menuView, parsed, releaseVars>>

NextTabs ==
    \E block \in ToolBlocks :
        \E approval \in (IF block.action = "open" THEN Approvals ELSE {"approved"}),
           closeFails \in (IF block.action = "close" THEN BOOLEAN ELSE {FALSE}) :
            InvokeManageTabs(block, approval, closeFails)

SpecTabs == Init /\ [][NextTabs]_vars

\* The parameters fail the validation: the action is missing or is not open
\* or close, an open has neither file nor files, a close has no file.
ValidationFails(block) ==
    \/ block.action \notin {"open", "close"}
    \/ block.action = "open" /\ Falsy(block.file) /\ block.files.kind \in {"undefined", "empty"}
    \/ block.action = "close" /\ Falsy(block.file)

C32_FailedActionKeepsCounter ==
    toolCall.outcome \in {"invalidJson", "fileNotFound", "lineOutOfRange", "tabNotFound",
                          "denied"}
        => consecutiveMistakeCount = toolCall.mistakesBefore

(***************************************************************************)
(* Release notes (hooks/useReleaseNotes.ts, ManualReleaseNotesButton.tsx)  *)
(***************************************************************************)

\* Most calls of loadReleases, and most mounts of the modal.
MaxLoads == 3

MaxOpens == 2

\* The data of releases.json, and the data cached when the import fails.
ReleaseJson == [currentVersion |-> "4.80.0", releases |-> 2]

EmptyFallback == [currentVersion |-> "0.0.0", releases |-> 0]

\* currentVersion as the hook returns it on a render.
HookCurrentVersion(cache) == IF cache = <<>> THEN "0.0.0" ELSE cache[1].currentVersion

\* A call of loadReleases up to its first await: with the cache filled it
\* returns the cache; otherwise it sets loading and evaluates the import.
\* caller is the mount of the modal whose effect calls, or 0 for a caller
\* outside the modal (hasUnviewedReleases); version is the currentVersion the
\* effect has closed over.
loadReleases(caller, version) ==
    /\ Len(loadCalls) < MaxLoads
    /\ IF releasesCache # <<>>
       THEN /\ loadCalls' = Append(loadCalls, [state |-> "resolved", caller |-> caller,
                                               version |-> version, cached |-> TRUE,
                                               imported |-> FALSE])
            /\ UNCHANGED <<importCount, loading>>
            /\ modal' = [modal EXCEPT !.effectPending = IF caller = 0 THEN @ ELSE FALSE]
       ELSE /\ loadCalls' = Append(loadCalls, [state |-> "importing", caller |-> caller,
                                               version |-> version, cached |-> FALSE,
                                               imported |-> TRUE])
            /\ importCount' = importCount + 1
            /\ loading' = IF caller = 0 THEN loading ELSE TRUE
            /\ modal' = IF caller = 0 THEN modal
                        ELSE [modal EXCEPT !.effectPending = FALSE,
                                           !.renderPending = @ \/ ~loading]
    /\ UNCHANGED <<releasesCache, viewed>>

\* The button is clicked: the modal mounts and renders with the cache as it
\* is; its effect is due.
OpenModal ==
    /\ ~modal.open
    /\ modal.instance < MaxOpens
    /\ modal' = [open |-> TRUE, instance |-> modal.instance + 1,
                 currentVersion |-> HookCurrentVersion(releasesCache),
                 effectPending |-> TRUE, renderPending |-> FALSE]
    /\ loading' = FALSE
    /\ UNCHANGED <<releasesCache, loadCalls, importCount, viewed>>
    /\ UNCHANGED <<gestureVars, logVars, mergeVars, sessionVars, atomCall, keyboardVars,
                   derivedList, reported, menuView, toolVars>>

\* The modal is closed and unmounts.
CloseModal ==
    /\ modal.open
    /\ modal' = [modal EXCEPT !.open = FALSE, !.effectPending = FALSE, !.renderPending = FALSE]
    /\ loading' = FALSE
    /\ UNCHANGED <<releasesCache, loadCalls, importCount, viewed>>
    /\ UNCHANGED <<gestureVars, logVars, mergeVars, sessionVars, atomCall, keyboardVars,
                   derivedList, reported, menuView, toolVars>>

\* A state of the hook has changed: the modal renders again. loadReleases and
\* markAsViewed are new functions on every render, so the effect is due again.
RenderModal ==
    /\ modal.open
    /\ modal.renderPending
    /\ modal' = [modal EXCEPT !.currentVersion = HookCurrentVersion(releasesCache),
                              !.effectPending = TRUE, !.renderPending = FALSE]
    /\ UNCHANGED <<releasesCache, loadCalls, importCount, loading, viewed>>
    /\ UNCHANGED <<gestureVars, logVars, mergeVars, sessionVars, atomCall, keyboardVars,
                   derivedList, reported, menuView, toolVars>>

\* The effect of the modal runs: loadReleases is called, and the callback
\* of its promise keeps the currentVersion of this render.
RunEffect ==
    /\ modal.open
    /\ modal.effectPending
    /\ loadReleases(modal.instance, modal.currentVersion)
    /\ UNCHANGED <<gestureVars, logVars, mergeVars, sessionVars, atomCall, keyboardVars,
                   derivedList, reported, menuView, toolVars>>

\* loadReleases is called from outside the modal (hasUnviewedReleases).
CallLoadReleases ==
    /\ loadReleases(0, "")
    /\ UNCHANGED <<gestureVars, logVars, mergeVars, sessionVars, atomCall, keyboardVars,
                   derivedList, reported, menuView, toolVars>>

\* The import of call i settles: the data, or on a failure the empty
\* fallback, is cached, and loading is cleared.
ImportSettles(i, ok) ==
    /\ loadCalls[i].state = "importing"
    /\ releasesCache' = IF ok THEN <<ReleaseJson>> ELSE <<EmptyFallback>>
    /\ loadCalls' = [loadCalls EXCEPT ![i].state = "resolved"]
    /\ IF modal.open /\ loadCalls[i].caller = modal.instance
       THEN /\ loading' = FALSE
            /\ modal' = [modal EXCEPT !.renderPending = @ \/ loading]
       ELSE UNCHANGED <<loading, modal>>
    /\ UNCHANGED <<importCount, viewed>>
    /\ UNCHANGED <<gestureVars, logVars, mergeVars, sessionVars, atomCall, keyboardVars,
                   derivedList, reported, menuView, toolVars>>

\* The promise of call i has resolved: the callback of the effect that made
\* the call marks the version it has closed over as viewed.
LoadCompleted(i) ==
    /\ loadCalls[i].state = "resolved"
    /\ loadCalls' = [loadCalls EXCEPT ![i].state = "done"]
    /\ viewed' = IF loadCalls[i].caller # 0 /\ loadCalls[i].version # ""
                 THEN Append(viewed, [version |-> loadCalls[i].version,
                                      loaded |-> releasesCache[1].currentVersion,
                                      call |-> i])
                 ELSE viewed
    /\ UNCHANGED <<releasesCache, importCount, loading, modal>>
    /\ UNCHANGED <<gestureVars, logVars, mergeVars, sessionVars, atomCall, keyboardVars,
                   derivedList, reported, menuView, toolVars>>

NextReleases ==
    \/ OpenModal
    \/ CloseModal
    \/ RenderModal
    \/ RunEffect
    \/ CallLoadReleases
    \/ \E i \in 1..MaxLoads, ok \in BOOLEAN : i \in DOMAIN loadCalls /\ ImportSettles(i, ok)
    \/ \E i \in 1..MaxLoads : i \in DOMAIN loadCalls /\ LoadCompleted(i)

SpecReleases == Init /\ [][NextReleases]_vars

\* C38 (as claimed): over any interleaving of loadReleases calls the release
\* data is imported at most once, and a call made with the cache filled
\* imports nothing.
C38_ImportedAtMostOnce ==
    /\ importCount <= 1
    /\ \A i \in DOMAIN loadCalls : loadCalls[i].cached => ~loadCalls[i].imported

\* C39 (as claimed): the version given to markAsViewed after loadReleases
\* has completed is the current version of the loaded release data.
C39_ViewedVersionIsLoadedVersion ==
    \A k \in DOMAIN viewed : viewed[k].version = viewed[k].loaded

====
